---- MODULE Spec2Model ----
(***************************************************************************)
(* Model of the modular rack of ikbencasdoei/synth-mod: the connection     *)
(* graph Io (src/src/io.rs), the Rack that owns it (src/src/rack/rack.rs)  *)
(* and the port/type descriptors (src/src/module.rs, src/src/types.rs).    *)
(*                                                                         *)
(* Hash maps are functions, hash sets are sets.  Every place where the     *)
(* code iterates a HashMap or HashSet is a nondeterministic choice of the  *)
(* iteration order, so an operator that iterates returns the SET of the    *)
(* outcomes the iteration order can produce.  f32 samples are integers;    *)
(* the sample values used are even, so that the halving in                 *)
(* Frame::as_f32_mono is exact.                                            *)
(***************************************************************************)
EXTENDS Integers, Sequences, FiniteSets, TLC

VARIABLES
    instances,          \* Rack.instances: live InstanceHandle -> module kind
    next_handle,        \* the next fresh InstanceHandle (Uuid::new_v4 never repeats)
    inputs,             \* Io.inputs: input PortHandle -> staged boxed value
    connections,        \* Io.connections: source PortHandle -> set of target PortHandles
    conversions,        \* Io.conversions: ConversionId -> conversion closure
    processing_order,   \* Io.processing_order: Vec<Vec<InstanceHandle>>
    panicked,           \* a call aborted (unwrap / expect failed)
    writes,             \* number of value writes performed so far
    last,               \* the last call of the Rack or Io: its arguments and what it returned
    clock,              \* number of frames process_amount has evaluated so far
    stamps,             \* input PortHandle -> the frame in which its staged value was written
    reads,              \* the reads of the last process_amount: frame, input, frame of the value
    ring,               \* the frames held by the ring buffer (HeapRb), oldest first
    tick,               \* App::process with a device: its position and its locals
    callback,           \* the output stream callback: its position and the data written
    damper,             \* LinearDamper: max_dif and current
    run,                \* the calls of LinearDamper::frame with the present target
    collected,          \* what the last process_amount returned: Vec<Vec<Frame>>
    calls,              \* the calls of Module::process of the last process_amount
    sends,              \* the frames sent by audio sinks in the last process_amount
    stream,             \* Output.instance: the StreamInstance, when there is one
    file,               \* a File module, its decode workers and its message channel
    scope               \* a Scope module

process_vars == <<clock, stamps, reads, collected, calls, sends>>

output_vars == <<ring, tick, callback, stream>>

damper_vars == <<damper, run>>

module_vars == <<file, scope>>

vars == <<instances, next_handle, inputs, connections, conversions,
          processing_order, panicked, writes, last,
          process_vars, output_vars, damper_vars, module_vars>>

(***************************************************************************)
(* Bounds of the exploration.                                              *)
(***************************************************************************)
MaxInstances == 3
MaxValueInstances == 2
MaxEdges == 2
MaxWrites == 1
MaxRackWrites == 2
MaxOrderInstances == 3
MaxOrderEdges == 3

(***************************************************************************)
(* Port and type descriptors.                                              *)
(***************************************************************************)
PortIdNew(name, type) == [id |-> name, value_type |-> type]

NoPortId == PortIdNew("none", "none")

InValueA == PortIdNew("InValueA", "f32")
InValueB == PortIdNew("InValueB", "f32")
OutValue == PortIdNew("OutValue", "f32")
FilterInput == PortIdNew("FilterInput", "Frame")
FilterOutput == PortIdNew("FilterOutput", "Frame")
ScopeInput == PortIdNew("ScopeInput", "f32")
KeyboardFreqOutput == PortIdNew("KeyboardFreqOutput", "f32")
KeyboardPressedOutput == PortIdNew("KeyboardPressedOutput", "bool")
FrameInput == PortIdNew("FrameInput", "f32")

Kinds == {"Operation", "Filter", "Scope", "Keyboard"}

GraphKinds == {"Operation", "Keyboard"}

KindInputs(kind) ==
    CASE kind = "Operation" -> {InValueA, InValueB}
      [] kind = "Filter" -> {FilterInput}
      [] kind = "Scope" -> {ScopeInput}
      [] kind = "Audio" -> {FrameInput}
      [] OTHER -> {}

KindOutputs(kind) ==
    CASE kind = "Operation" -> {OutValue}
      [] kind = "Filter" -> {FilterOutput}
      [] kind = "Keyboard" -> {KeyboardFreqOutput, KeyboardPressedOutput}
      [] OTHER -> {}

PortHandleNew(id, instance) == [id |-> id, instance |-> instance]

NoPort == PortHandleNew(NoPortId, 0)

\* Instance.inputs / Instance.outputs: the port handles of a live instance
InstanceInputs(inst, h) == {PortHandleNew(p, h) : p \in KindInputs(inst[h])}
InstanceOutputs(inst, h) == {PortHandleNew(p, h) : p \in KindOutputs(inst[h])}
InstancePorts(inst, h) == InstanceInputs(inst, h) \cup InstanceOutputs(inst, h)

LiveInputs(inst) == UNION {InstanceInputs(inst, h) : h \in DOMAIN inst}
LiveOutputs(inst) == UNION {InstanceOutputs(inst, h) : h \in DOMAIN inst}
LivePorts(inst) == LiveInputs(inst) \cup LiveOutputs(inst)

(***************************************************************************)
(* Boxed values: f32 is <<x>>, bool is <<0>> or <<1>>, Frame::Mono(x) is   *)
(* <<x>> and Frame::Stereo(a, b) is <<a, b>>.                              *)
(***************************************************************************)
Boxed(type, ch) == [type |-> type, ch |-> ch]

NoValue == Boxed("none", <<>>)

ValuesOf(type) ==
    CASE type = "f32" -> {Boxed("f32", <<2>>)}
      [] type = "Frame" -> {Boxed("Frame", <<2>>), Boxed("Frame", <<2, 4>>)}
      [] type = "bool" -> {Boxed("bool", <<1>>)}
      [] OTHER -> {}

as_f32_mono(frame) ==
    IF Len(frame.ch) = 1 THEN frame.ch[1] ELSE (frame.ch[1] + frame.ch[2]) \div 2

as_f32_tuple(frame) ==
    IF Len(frame.ch) = 1 THEN <<frame.ch[1], frame.ch[1]>> ELSE <<frame.ch[1], frame.ch[2]>>

InputDefault(id) ==
    CASE id = FilterInput -> Boxed("Frame", <<0>>)
      [] OTHER -> Boxed("f32", <<0>>)

(***************************************************************************)
(* ConnectResult and ConversionId.                                         *)
(***************************************************************************)
Result(kind, a, b) == [kind |-> kind, a |-> a, b |-> b]

Ok == Result("Ok", NoPort, NoPort)
Replace(a, b) == Result("Replace", a, b)
SameInstance == Result("SameInstance", NoPort, NoPort)
InCompatible == Result("InCompatible", NoPort, NoPort)
Conversion == Result("Conversion", NoPort, NoPort)
NoResult == Result("none", NoPort, NoPort)

\* into_result with InCompatible among the accepted results
into_result_accepting_incompatible(result) ==
    result.kind \in {"Ok", "Replace", "Conversion", "InCompatible"}

\* TRUE for Ok(self), FALSE for Err(self)
into_result(result) == result.kind \in {"Ok", "Replace", "Conversion"}

as_str(result) ==
    CASE result.kind = "Ok" -> "ok"
      [] result.kind = "Replace" -> "replace"
      [] result.kind = "SameInstance" -> "same instance"
      [] result.kind = "InCompatible" -> "incompatible"
      [] OTHER -> "convert type"

ConversionIdNew(from_type, to_type, to_port) ==
    [from_type |-> from_type, to_type |-> to_type, to_port |-> to_port]

from_ports(from, to) ==
    ConversionIdNew(from.id.value_type, to.id.value_type, to.id)

into_general(cid) == ConversionIdNew(cid.from_type, cid.to_type, NoPortId)

\* Conversion::new_input: None (the empty set) when the closure's output type
\* is not the port's value type
new_input(port, from_type, out_type, closure) ==
    IF out_type # port.value_type THEN {}
    ELSE {[id |-> ConversionIdNew(from_type, port.value_type, port), closure |-> closure]}

new_type(from_type, to_type, closure) ==
    [id |-> ConversionIdNew(from_type, to_type, NoPortId), closure |-> closure]

\* what a registered closure does to a boxed value
ApplyClosure(closure, boxed) ==
    CASE closure = "as_f32_mono" -> Boxed("f32", <<as_f32_mono(boxed)>>)
      [] closure = "as_f32_left" -> Boxed("f32", <<as_f32_tuple(boxed)[1]>>)
      [] closure = "Mono" -> Boxed("Frame", <<boxed.ch[1]>>)
      [] OTHER -> NoValue

\* Rack::default: init_type for f32, bool and Frame, init_module for the kinds
DefaultConversions ==
    LET registered == {new_type("Frame", "f32", "as_f32_mono"),
                       new_type("f32", "Frame", "Mono")}
                      \cup new_input(ScopeInput, "Frame", "f32", "as_f32_mono")
    IN [cid \in {c.id : c \in registered} |->
            (CHOOSE c \in registered : c.id = cid).closure]

(***************************************************************************)
(* Io: staged values and conversions.                                      *)
(***************************************************************************)
IoNew(inp, conn, order, pan) ==
    [inputs |-> inp, connections |-> conn, processing_order |-> order, panicked |-> pan]

Without(f, key) == [k \in DOMAIN f \ {key} |-> f[k]]

With(f, key, value) == [k \in DOMAIN f \cup {key} |-> IF k = key THEN value ELSE f[k]]

get_input_dyn(inp, port) == IF port \in DOMAIN inp THEN inp[port] ELSE NoValue

set_input_dyn(inp, port, value) == With(inp, port, value)

\* get_conversion looking up the type-general entry before the port-specific one
get_conversion_general_first(conv, id, from_type) ==
    LET conversion_id == ConversionIdNew(from_type, id.value_type, id)
    IN IF into_general(conversion_id) \in DOMAIN conv
       THEN conv[into_general(conversion_id)]
       ELSE IF conversion_id \in DOMAIN conv THEN conv[conversion_id] ELSE "none"

\* the closure found for input port id and a staged value of from_type;
\* "none" is None
get_conversion(conv, id, from_type) ==
    LET conversion_id == ConversionIdNew(from_type, id.value_type, id)
    IN IF conversion_id \in DOMAIN conv THEN conv[conversion_id]
       ELSE IF into_general(conversion_id) \in DOMAIN conv
            THEN conv[into_general(conversion_id)]
            ELSE "none"

PanicValue == Boxed("panic", <<>>)

\* None is NoValue; a failed expect is PanicValue
try_convert(conv, id, boxed) ==
    LET conversion == get_conversion(conv, id, boxed.type)
    IN IF conversion = "none" THEN NoValue
       ELSE LET converted == ApplyClosure(conversion, boxed)
            IN IF converted.type = id.value_type THEN converted ELSE PanicValue

try_get_input(inp, conv, port) ==
    LET boxed == get_input_dyn(inp, port)
    IN IF boxed = NoValue THEN NoValue
       ELSE IF boxed.type = port.id.value_type THEN boxed
            ELSE LET converted == try_convert(conv, port.id, boxed)
                 IN IF converted = NoValue THEN PanicValue ELSE converted

get_input(inp, conv, port) ==
    LET value == try_get_input(inp, conv, port)
    IN IF value = NoValue THEN InputDefault(port.id) ELSE value

output_connections(conn, handle) == IF handle \in DOMAIN conn THEN conn[handle] ELSE {}

\* set_output_dyn that leaves only the propagated value staged
set_output_dyn_dropping_the_rest(inp, conn, port, value) ==
    [k \in output_connections(conn, port) |-> value]

set_output_dyn(inp, conn, port, value) ==
    [k \in DOMAIN inp \cup output_connections(conn, port) |->
        IF k \in output_connections(conn, port) THEN value ELSE inp[k]]

(***************************************************************************)
(* Io: the connection set.                                                 *)
(***************************************************************************)
Edges(conn) == UNION {{<<from, to>> : to \in conn[from]} : from \in DOMAIN conn}

Sources(conn, input) == {from \in DOMAIN conn : input \in conn[from]}

\* the first source the iteration over the map meets; {NoPort} is None
input_connection(conn, input) ==
    IF Sources(conn, input) = {} THEN {NoPort} ELSE Sources(conn, input)

\* ShowContext::has_connection
has_connection(conn, handle) ==
    output_connections(conn, handle) # {} \/ input_connection(conn, handle) # {NoPort}

\* is_compatible that accepts any two ports
is_compatible_of_any_types(id, other) == Ok

\* PortId::is_compatible, reached through PortHandle::is_compatible
is_compatible(id, other) ==
    IF id.value_type = other.value_type THEN Ok ELSE InCompatible

\* can_connect without the look-up of the present source of the input
can_connect_ignoring_source(conn, conv, from, to) ==
    LET first == is_compatible(from.id, to.id)
        conversion_id == from_ports(from, to)
    IN {IF first.kind = "InCompatible"
           /\ (conversion_id \in DOMAIN conv
               \/ into_general(conversion_id) \in DOMAIN conv)
        THEN Conversion ELSE first}

can_connect(conn, conv, from, to) ==
    LET first == is_compatible(from.id, to.id)
        conversion_id == from_ports(from, to)
        result == IF first.kind = "InCompatible"
                     /\ (conversion_id \in DOMAIN conv
                         \/ into_general(conversion_id) \in DOMAIN conv)
                  THEN Conversion ELSE first
    IN IF result.kind \in {"Ok", "Conversion"}
       THEN {IF connection = NoPort THEN result ELSE Replace(connection, to) :
                connection \in input_connection(conn, to)}
       ELSE {result}

get_instances_dependencies(conn) ==
    [instance \in {e[2].instance : e \in Edges(conn)} |->
        {e[1].instance : e \in {d \in Edges(conn) : d[2].instance = instance}}]

(***************************************************************************)
(* The topological sort of the instances.  TopologicalSort keeps, for each *)
(* element, the number of its predecessors and the set of its successors.  *)
(***************************************************************************)
EmptyMap == [k \in {} |-> k]

RECURSIVE Perms(_)
\* the orders in which a hash set can be iterated
Perms(set) ==
    IF set = {} THEN {<<>>}
    ELSE UNION {{<<x>> \o rest : rest \in Perms(set \ {x})} : x \in set}

\* TopologicalSort::add_dependency(prec, succ)
add_dependency(top, prec, succ) ==
    IF prec \in DOMAIN top /\ succ \in top[prec].succ THEN top
    ELSE LET with_prec ==
                 IF prec \in DOMAIN top
                 THEN [top EXCEPT ![prec].succ = @ \cup {succ}]
                 ELSE With(top, prec, [num_prec |-> 0, succ |-> {succ}])
         IN IF succ \in DOMAIN with_prec
            THEN [with_prec EXCEPT ![succ].num_prec = @ + 1]
            ELSE With(with_prec, succ, [num_prec |-> 1, succ |-> {}])

\* the inner loop that skips a dependency as soon as one of its two
\* instances is known
AddDependencyBetweenNew(state, dep, instance) ==
    IF instance \notin state.added /\ dep \notin state.added
    THEN [topo |-> add_dependency(state.topo, dep, instance),
          added |-> state.added \cup {dep, instance}]
    ELSE state

\* the body of the inner loop of compute_instances_processing_order
AddDependencyOnce(state, dep, instance) ==
    IF instance \notin state.added \/ dep \notin state.added
    THEN [topo |-> add_dependency(state.topo, dep, instance),
          added |-> state.added \cup {dep, instance}]
    ELSE state

RECURSIVE AddDeps(_, _, _)
\* the inner loop, over the dependencies of one instance in any order
AddDeps(state, instance, deps) ==
    IF deps = {} THEN {state}
    ELSE UNION {AddDeps(AddDependencyOnce(state, dep, instance), instance, deps \ {dep}) :
                    dep \in deps}

RECURSIVE AddInstances(_, _, _)
\* the outer loop, over the entries of the dependency map in any order
AddInstances(state, depmap, remaining) ==
    IF remaining = {} THEN {state.topo}
    ELSE UNION {UNION {AddInstances(next, depmap, remaining \ {instance}) :
                           next \in AddDeps(state, instance, depmap[instance])} :
                    instance \in remaining}

\* the elements TopologicalSort::pop_all returns, as a set
Popped(top) == {k \in DOMAIN top : top[k].num_prec = 0}

\* the sort after pop_all removed the elements without predecessors
AfterPopAll(top) ==
    [k \in DOMAIN top \ Popped(top) |->
        [num_prec |-> top[k].num_prec
                        - Cardinality({p \in Popped(top) : k \in top[p].succ}),
         succ |-> top[k].succ]]

OrderOk(list) == [ok |-> TRUE, list |-> list]
OrderErr == [ok |-> FALSE, list |-> <<>>]

RECURSIVE PopLoop(_)
\* the while loop: the lists it can build, or Err("cyclic dependency")
PopLoop(top) ==
    IF DOMAIN top = {} THEN {OrderOk(<<>>)}
    ELSE IF Popped(top) = {} THEN {OrderErr}
    ELSE UNION {{IF rest.ok THEN OrderOk(<<elements>> \o rest.list) ELSE rest :
                    elements \in Perms(Popped(top))} :
                 rest \in PopLoop(AfterPopAll(top))}

compute_instances_processing_order(conn) ==
    LET depmap == get_instances_dependencies(conn)
    IN UNION {PopLoop(topo) :
                topo \in AddInstances([topo |-> EmptyMap, added |-> {}], depmap, DOMAIN depmap)}

\* an update that leaves the cached order as it is
update_keeping_cached_order(io) == {io}

\* unwrap: Err aborts the call, leaving the old order
update_instances_processing_order(io) ==
    {IF result.ok THEN [io EXCEPT !.processing_order = result.list]
                  ELSE [io EXCEPT !.panicked = TRUE] :
        result \in compute_instances_processing_order(io.connections)}

\* the outcomes in which the call has aborted: no later statement runs
Aborted(outcomes) == {io \in outcomes : io.panicked}

\* the outcomes after which the next statement of the call runs
Returned(outcomes) == {io \in outcomes : ~io.panicked}

(***************************************************************************)
(* Io: connect, disconnect, clear_port, remove_instance.                   *)
(***************************************************************************)
\* Io::connect that replaces the set of the source by the one new target
io_connect_replacing_fan_out(io, conv, from, to) ==
    UNION {IF ~into_result(can)
           THEN {[io |-> io, ret |-> can]}
           ELSE {[io |-> after, ret |-> can] :
                    after \in update_instances_processing_order(
                        [io EXCEPT !.connections = With(@, from, {to})])} :
        can \in can_connect(io.connections, conv, from, to)}

\* the outcomes of Io::connect: the Io after the call and the value returned
io_connect(io, conv, from, to) ==
    UNION {IF ~into_result(can)
           THEN {[io |-> io, ret |-> can]}
           ELSE {[io |-> after, ret |-> can] :
                    after \in update_instances_processing_order(
                        [io EXCEPT !.connections =
                            With(@, from, output_connections(@, from) \cup {to})])} :
        can \in can_connect(io.connections, conv, from, to)}

\* disconnect without the removal of the staged value
disconnect_keeping_staged_value(io, from, to) ==
    IF from \in DOMAIN io.connections
    THEN update_instances_processing_order(
            [io EXCEPT !.connections[from] = @ \ {to}])
    ELSE {io}

disconnect(io, from, to) ==
    IF from \in DOMAIN io.connections
    THEN update_instances_processing_order(
            [io EXCEPT !.connections[from] = @ \ {to}, !.inputs = Without(@, to)])
    ELSE {io}

RECURSIVE DisconnectEach(_, _, _)
\* the loop of clear_port over the cloned set of connected inputs
DisconnectEach(io, handle, remaining) ==
    IF remaining = {} THEN {io}
    ELSE UNION {Aborted(disconnect(io, handle, input))
                \cup UNION {DisconnectEach(next, handle, remaining \ {input}) :
                              next \in Returned(disconnect(io, handle, input))} :
                    input \in remaining}

clear_port(io, handle) ==
    LET incoming == UNION {IF output = NoPort THEN {io} ELSE disconnect(io, output, handle) :
                              output \in input_connection(io.connections, handle)}
    IN Aborted(incoming)
       \cup UNION {DisconnectEach(next, handle, output_connections(next.connections, handle)) :
                     next \in Returned(incoming)}

\* the ports of instance that appear in the connection map
\* instance_ports without the ports that are only the source of an edge
instance_ports_targets_only(conn, instance) ==
    {handle \in UNION {conn[from] : from \in DOMAIN conn} : handle.instance = instance}

instance_ports(conn, instance) ==
    {handle \in DOMAIN conn \cup UNION {conn[from] : from \in DOMAIN conn} :
        handle.instance = instance}

RECURSIVE ClearEach(_, _)
ClearEach(io, remaining) ==
    IF remaining = {} THEN {io}
    ELSE UNION {Aborted(clear_port(io, port))
                \cup UNION {ClearEach(next, remaining \ {port}) :
                              next \in Returned(clear_port(io, port))} :
                    port \in remaining}

\* remove_instance that clears no port
io_remove_instance_clearing_nothing(io, instance) == {io}

io_remove_instance(io, instance) ==
    ClearEach(io, instance_ports(io.connections, instance))

(***************************************************************************)
(* f32 arithmetic.  A sample or amplitude is an integer count of units of  *)
(* 2^-30, so One is 1.0.  An f32 keeps 24 significant bits: every sum,     *)
(* difference and quotient is rounded to the nearest value with at most    *)
(* 24 significant bits, ties to the even one, as IEEE 754 does.  The       *)
(* values used stay within [-1.0, 1.0] and are multiples of 2^-30.         *)
(***************************************************************************)
Significand == 24

RECURSIVE Pow2(_)
Pow2(n) == IF n = 0 THEN 1 ELSE 2 * Pow2(n - 1)

One == Pow2(30)

Abs(x) == IF x < 0 THEN -x ELSE x

\* the number of bits of a natural number
RECURSIVE BitLen(_)
BitLen(n) == IF n = 0 THEN 0 ELSE 1 + BitLen(n \div 2)

\* num / den (num >= 0, den > 0) rounded to an f32
RoundRatio(num, den) ==
    LET q == num \div den
        e == IF BitLen(q) > Significand THEN BitLen(q) - Significand ELSE 0
        step == den * Pow2(e)
        down == num \div step
        rest == num - down * step
        up == IF 2 * rest > step \/ (2 * rest = step /\ down % 2 = 1)
              THEN down + 1 ELSE down
    IN up * Pow2(e)

\* an exact real result rounded to an f32
fl(n) == IF n < 0 THEN -RoundRatio(-n, 1) ELSE RoundRatio(n, 1)

f32_add(a, b) == fl(a + b)

f32_sub(a, b) == fl(a - b)

\* a / k for an integer-valued f32 k
f32_div(a, k) == IF a < 0 THEN -RoundRatio(-a, k) ELSE RoundRatio(a, k)

\* a * b, for the products that are exact: a factor 0.0, 1.0 or -1.0
f32_mul(a, b) ==
    CASE a = 0 \/ b = 0 -> 0
      [] a = One -> b
      [] b = One -> a
      [] a = -One -> -b
      [] b = -One -> -a

\* f32::clamp
clamp(x, min, max) == IF x < min THEN min ELSE IF x > max THEN max ELSE x

(***************************************************************************)
(* Frame arithmetic (src/src/frame.rs).                                    *)
(***************************************************************************)
Mono(sample) == Boxed("Frame", <<sample>>)

Stereo(a, b) == Boxed("Frame", <<a, b>>)

FrameDefault == Mono(0)

ZERO == Mono(0)

\* impl Mul<f32> for Frame
FrameMul(self, rhs) ==
    IF Len(self.ch) = 1 THEN Mono(f32_mul(self.ch[1], rhs))
    ELSE Stereo(f32_mul(self.ch[1], rhs), f32_mul(self.ch[2], rhs))

\* impl Add for Frame
FrameAdd(self, rhs) ==
    IF Len(self.ch) = 1
    THEN IF Len(rhs.ch) = 1 THEN Mono(f32_add(self.ch[1], rhs.ch[1]))
         ELSE Stereo(f32_add(rhs.ch[1], self.ch[1]), f32_add(rhs.ch[2], self.ch[1]))
    ELSE IF Len(rhs.ch) = 1
         THEN Stereo(f32_add(self.ch[1], rhs.ch[1]), f32_add(self.ch[2], rhs.ch[1]))
         ELSE Stereo(f32_add(rhs.ch[1], self.ch[1]), f32_add(rhs.ch[2], self.ch[2]))

(***************************************************************************)
(* LinearDamper (src/src/damper.rs).                                       *)
(***************************************************************************)
LinearDamperNew(max_dif, start) == [max_dif |-> max_dif, current |-> start]

\* sample_rate is a multiple of 20, so that sample_rate as f32 / 20.0 is
\* the integer sample_rate / 20
new_cutoff(sample_rate) == LinearDamperNew(f32_div(One, sample_rate \div 20), 0)

\* LinearDamper::frame: the damper after the call; the value returned is
\* its current
frame(self, input) ==
    LET dif == clamp(f32_sub(input, self.current), -self.max_dif, self.max_dif)
    IN [self EXCEPT !.current = f32_add(self.current, dif)]

(***************************************************************************)
(* The audio output and the processing clock before anything has run.      *)
(***************************************************************************)
\* HeapRb::new: the buffer holds at most capacity frames
HeapRbNew(capacity) == [capacity |-> capacity, frames |-> <<>>]

\* free: what free_len returned; outputs: the mixed frames; items: the frames
\* push_iter took from its iterator; done: a push has completed
\* delta: the seconds elapsed since the tick before; erred, start_id: the
\* error flag and the instance at the start of the tick; paced, rate, amount:
\* how process_amount was called; before: the damper when push_iter began
NoTick == [pc |-> "idle", free |-> 0, outputs |-> <<>>, items |-> <<>>, done |-> FALSE,
           delta |-> 0, erred |-> FALSE, start_id |-> 0, paced |-> "none",
           rate |-> 0, amount |-> 0, before |-> [max_dif |-> 0, current |-> 0]]

\* chunks: stereo chunks of data still to fill; data: the chunks written;
\* empty: for every chunk written, whether pop found the buffer empty
NoCallback == [pc |-> "idle", chunks |-> 0, data |-> <<>>, empty |-> <<>>]

\* target: the input of the present calls; start: current when the target
\* was set; calls: calls made with it; previous, returned: current before the
\* last call and the value it returned; targets: targets set so far
NoRun == [target |-> 0, start |-> 0, calls |-> 0, previous |-> 0, returned |-> 0,
          targets |-> 0]

\* Output.instance is None
NoStream == [present |-> FALSE, id |-> 0, is_err |-> FALSE, sample_rate |-> 0,
             volume |-> 0, muted |-> FALSE, protection |-> FALSE]

Updating(pos) == [kind |-> "Updating", n |-> pos]

Waiting(waited) == [kind |-> "Waiting", n |-> waited]

\* Scope::default
ScopeDefault == [buffer |-> <<>>, size |-> 10000, interval |-> 50000,
                 state |-> Updating(0)]

\* File::default; requests counts the calls of File::update, workers holds
\* the paths whose decode thread has not sent its result yet
FileDefault == [buffer |-> "empty", seek |-> 0, playing |-> FALSE, path |-> "",
                loading |-> FALSE, channel |-> <<>>, workers |-> {}, requests |-> 0]

\* no frame processed, no device attached, no damper call made
Idle ==
    /\ clock = 0
    /\ stamps = [p \in {} |-> 0]
    /\ reads = {}
    /\ collected = <<>>
    /\ calls = <<>>
    /\ sends = {}
    /\ ring = HeapRbNew(0)
    /\ tick = NoTick
    /\ callback = NoCallback
    /\ stream = NoStream
    /\ file = FileDefault
    /\ scope = ScopeDefault
    /\ damper = LinearDamperNew(One, 0)
    /\ run = NoRun

(***************************************************************************)
(* Rack: the calls of the graph mutation API.                              *)
(***************************************************************************)
\* Rack::connect without the disconnect of the replaced source
rack_connect_keeping_old_source(io, conv, from, to) ==
    UNION {IF into_result(result)
           THEN {[io |-> c.io, can |-> result,
                  ret |-> IF c.io.panicked THEN "panic" ELSE "Ok"] :
                    c \in io_connect(io, conv, from, to)}
           ELSE {[io |-> io, can |-> result, ret |-> as_str(result)]} :
        result \in can_connect(io.connections, conv, from, to)}

\* the outcomes of Rack::connect.  The arms Ok | Warn(_) of its match are the
\* results that into_result maps to Ok, the arm Err(_) those it maps to Err.
rack_connect(io, conv, from, to) ==
    UNION {IF into_result(result)
           THEN LET replaced == IF result.kind = "Replace"
                                THEN disconnect(io, result.a, result.b)
                                ELSE {io}
                    connected == Aborted(replaced)
                                 \cup UNION {{c.io : c \in io_connect(next, conv, from, to)} :
                                               next \in Returned(replaced)}
                IN {[io |-> after, can |-> result,
                     ret |-> IF after.panicked THEN "panic" ELSE "Ok"] : after \in connected}
           ELSE {[io |-> io, can |-> result, ret |-> as_str(result)]} :
        result \in can_connect(io.connections, conv, from, to)}

Call(op, instance, from, to, can, ret, value) ==
    [op |-> op, instance |-> instance, from |-> from, to |-> to,
     can |-> can, ret |-> ret, value |-> value, dropped |-> {}, before |-> <<>>]

\* the edges of a set as they stand when a call begins, each with the value
\* staged at its target
Dropped(inp, edges) ==
    {[from |-> e[1], to |-> e[2], value |-> get_input_dyn(inp, e[2])] : e \in edges}

\* a call that is to remove edges
Removal(op, instance, from, to, ret, edges) ==
    [Call(op, instance, from, to, NoResult, ret, NoValue)
        EXCEPT !.dropped = Dropped(inputs, edges)]

Io == IoNew(inputs, connections, processing_order, panicked)

SetIo(io) ==
    /\ inputs' = io.inputs
    /\ connections' = io.connections
    /\ processing_order' = io.processing_order
    /\ panicked' = io.panicked

EdgeCount(conn) == Cardinality(Edges(conn))

Init ==
    /\ instances = EmptyMap
    /\ next_handle = 1
    /\ inputs = EmptyMap
    /\ connections = EmptyMap
    /\ conversions = DefaultConversions
    /\ processing_order = <<>>
    /\ panicked = FALSE
    /\ writes = 0
    /\ last = Call("new", 0, NoPort, NoPort, NoResult, "none", NoValue)
    /\ Idle

\* Rack::add_module
AddModule(kind, limit) ==
    /\ ~panicked
    /\ next_handle <= limit
    /\ instances' = With(instances, next_handle, kind)
    /\ next_handle' = next_handle + 1
    /\ last' = Call("add_module", next_handle, NoPort, NoPort, NoResult, "none", NoValue)
    /\ UNCHANGED <<inputs, connections, conversions, processing_order, panicked, writes>>
    /\ UNCHANGED <<process_vars, output_vars, damper_vars, module_vars>>

\* Rack::connect
Connect(from, to) ==
    /\ ~panicked
    /\ \E out \in rack_connect(Io, conversions, from, to) :
        /\ EdgeCount(out.io.connections) <= MaxEdges
        /\ SetIo(out.io)
        /\ last' = Call("connect", 0, from, to, out.can, out.ret, NoValue)
    /\ UNCHANGED <<instances, next_handle, conversions, writes>>
    /\ UNCHANGED <<process_vars, output_vars, damper_vars, module_vars>>

\* Rack::disconnect
Disconnect(from, to) ==
    /\ ~panicked
    /\ \E out \in disconnect(Io, from, to) :
        /\ SetIo(out)
        /\ last' = Removal("disconnect", 0, from, to,
                           IF out.panicked THEN "panic" ELSE "Ok",
                           Edges(connections) \cap {<<from, to>>})
    /\ UNCHANGED <<instances, next_handle, conversions, writes>>
    /\ UNCHANGED <<process_vars, output_vars, damper_vars, module_vars>>

\* Rack::remove_instance
RemoveInstance(handle) ==
    /\ ~panicked
    /\ \E out \in io_remove_instance(Io, handle) :
        /\ SetIo(out)
        /\ instances' = IF out.panicked THEN instances ELSE Without(instances, handle)
        /\ last' = Removal("remove_instance", handle, NoPort, NoPort,
                           IF out.panicked THEN "panic" ELSE "Ok",
                           {e \in Edges(connections) :
                               handle \in {e[1].instance, e[2].instance}})
    /\ UNCHANGED <<next_handle, conversions, writes>>
    /\ UNCHANGED <<process_vars, output_vars, damper_vars, module_vars>>

\* ProcessContext::set_output, Io::set_output
SetOutput(port, value, limit) ==
    /\ ~panicked
    /\ writes < limit
    /\ writes' = writes + 1
    /\ inputs' = set_output_dyn(inputs, connections, port, value)
    /\ last' = Call("set_output", port.instance, port, NoPort, NoResult, "Ok", value)
    /\ UNCHANGED <<instances, next_handle, connections, conversions, processing_order, panicked>>
    /\ UNCHANGED <<process_vars, output_vars, damper_vars, module_vars>>

\* ShowContext::set_input, from the edit closure of an unconnected input port
SetInput(port, value, limit) ==
    /\ ~panicked
    /\ writes < limit
    /\ Sources(connections, port) = {}
    /\ writes' = writes + 1
    /\ inputs' = set_input_dyn(inputs, port, value)
    /\ last' = Call("set_input", port.instance, NoPort, port, NoResult, "Ok", value)
    /\ UNCHANGED <<instances, next_handle, connections, conversions, processing_order, panicked>>
    /\ UNCHANGED <<process_vars, output_vars, damper_vars, module_vars>>

\* Io::connect, called on the public field Rack.io
IoConnect(from, to) ==
    /\ ~panicked
    /\ \E out \in io_connect(Io, conversions, from, to) :
        /\ EdgeCount(out.io.connections) <= MaxEdges
        /\ SetIo(out.io)
        /\ last' = Call("io_connect", 0, from, to, out.ret,
                        IF out.io.panicked THEN "panic"
                        ELSE IF into_result(out.ret) THEN "Ok" ELSE "Err", NoValue)
    /\ UNCHANGED <<instances, next_handle, conversions, writes>>
    /\ UNCHANGED <<process_vars, output_vars, damper_vars, module_vars>>

\* the conversions a caller registers after construction
ExtraConversions ==
    new_input(ScopeInput, "Frame", "f32", "as_f32_left")
    \cup {new_type("Frame", "f32", "as_f32_left")}

\* Io::add_conversion
AddConversion(conversion) ==
    /\ ~panicked
    /\ conversions' = With(conversions, conversion.id, conversion.closure)
    /\ last' = Call("add_conversion", 0, NoPort, NoPort, NoResult, conversion.closure, NoValue)
    /\ UNCHANGED <<instances, next_handle, inputs, connections, processing_order,
                   panicked, writes>>
    /\ UNCHANGED <<process_vars, output_vars, damper_vars, module_vars>>

\* the graph mutation API of the Rack, as the editor and the examples call it:
\* an output port is connected to an input port
Next ==
    \/ \E kind \in GraphKinds : AddModule(kind, MaxInstances)
    \/ \E from \in LiveOutputs(instances), to \in LiveInputs(instances) : Connect(from, to)
    \/ \E from \in LiveOutputs(instances), to \in LiveInputs(instances) : Disconnect(from, to)
    \/ \E handle \in DOMAIN instances : RemoveInstance(handle)

Spec == Init /\ [][Next]_vars

\* the graph mutation API together with the value traffic through the ports
NextValues ==
    \/ \E kind \in Kinds : AddModule(kind, MaxValueInstances)
    \/ \E from \in LiveOutputs(instances), to \in LiveInputs(instances) : Connect(from, to)
    \/ \E from \in LiveOutputs(instances), to \in LiveInputs(instances) : Disconnect(from, to)
    \/ \E handle \in DOMAIN instances : RemoveInstance(handle)
    \/ \E port \in LiveOutputs(instances) :
          \E value \in ValuesOf(port.id.value_type) : SetOutput(port, value, MaxWrites)
    \/ \E port \in LiveInputs(instances) :
          \E value \in ValuesOf(port.id.value_type) : SetInput(port, value, MaxWrites)
    \/ \E conversion \in ExtraConversions : AddConversion(conversion)
    \/ \E from \in LiveOutputs(instances), to \in LiveInputs(instances) : IoConnect(from, to)

SpecValues == Init /\ [][NextValues]_vars

\* the API of the Rack alone, with the value traffic of the module contexts:
\* every edge is made by Rack::connect
NextRack ==
    \/ \E kind \in Kinds : AddModule(kind, MaxValueInstances)
    \/ \E from \in LiveOutputs(instances), to \in LiveInputs(instances) : Connect(from, to)
    \/ \E from \in LiveOutputs(instances), to \in LiveInputs(instances) : Disconnect(from, to)
    \/ \E handle \in DOMAIN instances : RemoveInstance(handle)
    \/ \E port \in LiveOutputs(instances) :
          \E value \in ValuesOf(port.id.value_type) : SetOutput(port, value, MaxRackWrites)
    \/ \E port \in LiveInputs(instances) :
          \E value \in ValuesOf(port.id.value_type) : SetInput(port, value, MaxRackWrites)

SpecRack == Init /\ [][NextRack]_vars

(***************************************************************************)
(* compute_instances_processing_order as a function of the connection set: *)
(* the connection sets of MaxOrderInstances Operation instances in which   *)
(* every input has at most one source and at most MaxOrderEdges edges.     *)
(***************************************************************************)
OrderInstances == 1 .. MaxOrderInstances

OrderInputs == {PortHandleNew(id, h) : id \in KindInputs("Operation"), h \in OrderInstances}

\* the connection map in which input port p is fed by the output of wiring[p]
\* (0: not connected)
WiredConnections(wiring) ==
    [from \in {PortHandleNew(OutValue, wiring[p]) : p \in {q \in OrderInputs : wiring[q] # 0}} |->
        {p \in OrderInputs : wiring[p] = from.instance}]

InitOrder ==
    /\ instances = [h \in OrderInstances |-> "Operation"]
    /\ next_handle = MaxOrderInstances + 1
    /\ inputs = EmptyMap
    /\ \E wiring \in [OrderInputs -> 0 .. MaxOrderInstances] :
        /\ Cardinality({p \in OrderInputs : wiring[p] # 0}) <= MaxOrderEdges
        /\ connections = WiredConnections(wiring)
    /\ conversions = DefaultConversions
    /\ processing_order = <<>>
    /\ panicked = FALSE
    /\ writes = 0
    /\ last = Call("new", 0, NoPort, NoPort, NoResult, "none", NoValue)
    /\ Idle

\* Io::compute_instances_processing_order, called on the public field Rack.io
ComputeOrder ==
    /\ \E result \in compute_instances_processing_order(connections) :
        /\ processing_order' = IF result.ok THEN result.list ELSE processing_order
        /\ last' = Call("compute_order", 0, NoPort, NoPort, NoResult,
                        IF result.ok THEN "Ok" ELSE "cyclic dependency", NoValue)
    /\ UNCHANGED <<instances, next_handle, inputs, connections, conversions, panicked, writes>>
    /\ UNCHANGED <<process_vars, output_vars, damper_vars, module_vars>>

NextOrder == ComputeOrder

SpecOrder == InitOrder /\ [][NextOrder]_vars

(***************************************************************************)
(* Notions the properties are stated with.                                 *)
(***************************************************************************)
RECURSIVE DepClosure(_, _)
\* the instances that the instances of set depend on, directly or transitively
DepClosure(depmap, set) ==
    LET more == set \cup UNION {depmap[i] : i \in set \cap DOMAIN depmap}
    IN IF more = set THEN set ELSE DepClosure(depmap, more)

Acyclic(depmap) ==
    \A i \in DOMAIN depmap : i \notin DepClosure(depmap, depmap[i])

\* two different instances depend on each other, directly or transitively
MutualDependency(depmap) ==
    \E i \in DOMAIN depmap, j \in DOMAIN depmap :
        /\ i # j
        /\ j \in DepClosure(depmap, depmap[i])
        /\ i \in DepClosure(depmap, depmap[j])

RECURSIVE Flatten(_)
Flatten(order) == IF order = <<>> THEN <<>> ELSE Head(order) \o Flatten(Tail(order))

Positions(seq, x) == {n \in 1 .. Len(seq) : seq[n] = x}

\* x occurs in seq, and every occurrence of y comes after every occurrence of x
StrictlyBefore(seq, x, y) ==
    /\ Positions(seq, x) # {}
    /\ Positions(seq, y) # {}
    /\ \A n \in Positions(seq, x), m \in Positions(seq, y) : n < m

ConversionRegistered(conv, from, to) ==
    \/ from_ports(from, to) \in DOMAIN conv
    \/ into_general(from_ports(from, to)) \in DOMAIN conv

Connectable(conv, from, to) ==
    \/ from.id.value_type = to.id.value_type
    \/ ConversionRegistered(conv, from, to)

IsConnectCall(call) == call.op \in {"connect", "io_connect"}

(***************************************************************************)
(* Properties.                                                             *)
(***************************************************************************)

\* C1: a connect of two ports of the same instance is reported as SameInstance,
\* returns the error "same instance" and leaves the connection set, the staged
\* values and the processing order unchanged.
C1_SameInstanceRejected ==
    [][(last'.op = "connect" /\ last'.from.instance = last'.to.instance)
        => /\ last'.can = SameInstance
           /\ last'.ret = as_str(SameInstance)
           /\ UNCHANGED <<connections, inputs, processing_order>>]_vars

\* C2: through the Rack API every port is the target of at most one edge.
C2_AtMostOneSource ==
    \A to \in UNION {connections[from] : from \in DOMAIN connections} :
        Cardinality(Sources(connections, to)) <= 1

\* C2 witness: a connect onto an input that had a source was accepted, and the
\* input has one source.
C2_Witness ==
    /\ last.op = "connect"
    /\ last.can.kind = "Replace"
    /\ last.ret = "Ok"
    /\ Cardinality(Sources(connections, last.to)) = 1

\* C3: when input B has source C and A is connectable to B, can_connect(A, B)
\* reports Replace(C, B); when Rack::connect(A, B) then returns Ok and A is not C,
\* the edge C->B is gone, the edge A->B is there and A is the only source of B.
C3_ReplaceDisplacesOldSource ==
    [][(/\ last'.op = "connect"
        /\ Sources(connections, last'.to) # {}
        /\ Connectable(conversions, last'.from, last'.to))
        => /\ last'.can.kind = "Replace"
           /\ last'.can.b = last'.to
           /\ Sources(connections, last'.to) = {last'.can.a}
           /\ (last'.ret = "Ok" /\ last'.can.a # last'.from)
                => /\ last'.to \notin output_connections(connections', last'.can.a)
                   /\ last'.to \in output_connections(connections', last'.from)
                   /\ Sources(connections', last'.to) = {last'.from}]_vars

\* C3 witness: a connect replaced the source of an input by another one.
C3_Witness ==
    /\ last.op = "connect"
    /\ last.can.kind = "Replace"
    /\ last.can.a # last.from
    /\ last.ret = "Ok"
    /\ Sources(connections, last.to) = {last.from}
    /\ last.to \notin output_connections(connections, last.can.a)

\* C4: for an acyclic dependency graph compute_instances_processing_order
\* returns Ok, and in the flattened order the instance of from comes strictly
\* before the instance of to for every edge from->to.
C4_OrderRespectsEveryEdge ==
    (last.op = "compute_order" /\ Acyclic(get_instances_dependencies(connections)))
        => /\ last.ret = "Ok"
           /\ \A e \in Edges(connections) :
                StrictlyBefore(Flatten(processing_order), e[1].instance, e[2].instance)

\* C5: for a dependency graph in which two instances depend on each other
\* compute_instances_processing_order returns the cyclic-dependency error.
C5_CycleIsReported ==
    (last.op = "compute_order" /\ MutualDependency(get_instances_dependencies(connections)))
        => last.ret = "cyclic dependency"

\* C6: after every call of the Rack API that returned, the instance dependency
\* graph of the stored connections is acyclic.
C6_GraphStaysAcyclic ==
    ~panicked => Acyclic(get_instances_dependencies(connections))

\* C7: connect, disconnect and remove_instance never abort.
C7_NoCallAborts == ~panicked

\* C8: a connect of ports of different value types without a registered
\* conversion reports InCompatible, returns the error and changes neither the
\* connection set nor a staged value nor the processing order.
C8_IncompatibleChangesNothing ==
    [][(/\ IsConnectCall(last')
        /\ last'.from.id.value_type # last'.to.id.value_type
        /\ ~ConversionRegistered(conversions, last'.from, last'.to))
        => /\ last'.can = InCompatible
           /\ last'.ret = IF last'.op = "connect" THEN as_str(InCompatible) ELSE "Err"
           /\ UNCHANGED <<connections, inputs, processing_order>>]_vars

\* C8 witness: an incompatible connect onto an input that has a source was rejected.
C8_Witness ==
    /\ IsConnectCall(last)
    /\ last.can = InCompatible
    /\ last.ret # "Ok"
    /\ Sources(connections, last.to) # {}

\* the value get_input returns for an input whose staged value was written by
\* an output of another value type: the registered conversion applied to it
ConvertedRead ==
    \A to \in connections[last.from] :
        last.value.type # to.id.value_type
            => /\ get_input(inputs, conversions, to).type = to.id.value_type
               /\ get_input(inputs, conversions, to) \in
                    {ApplyClosure(conversions[cid], last.value) :
                        cid \in {from_ports(last.from, to), into_general(from_ports(last.from, to))}
                                \cap DOMAIN conversions}

\* C9: a connect of ports of different value types with a registered conversion
\* succeeds, and after set_output(v) on the source get_input on the target
\* returns the registered conversion applied to v.
C9_ConversionConnects ==
    /\ (/\ IsConnectCall(last)
        /\ last.from.id.value_type # last.to.id.value_type
        /\ ConversionRegistered(conversions, last.from, last.to))
        => /\ last.ret = "Ok"
           /\ last.to \in output_connections(connections, last.from)
    /\ (last.op = "set_output" /\ last.from \in DOMAIN connections) => ConvertedRead

\* C9 witness of the value path: an output wrote a value of another type than
\* the connected input declares.
C9_Witness ==
    /\ last.op = "set_output"
    /\ last.from \in DOMAIN connections
    /\ \E to \in connections[last.from] : last.value.type # to.id.value_type

\* the conversion entry of input port id for staged values of from_type
PortSpecific(id, from_type) == ConversionIdNew(from_type, id.value_type, id)

\* C10: an input whose staged value has another type than the port declares is
\* read through the port-specific conversion when one is registered for the
\* port, and through the type-general one only when none is.
C10_PortSpecificFirst ==
    \A port \in DOMAIN inputs :
        LET staged == inputs[port]
            specific == PortSpecific(port.id, staged.type)
            general == into_general(specific)
        IN staged.type # port.id.value_type
            => /\ specific \in DOMAIN conversions
                    => get_input(inputs, conversions, port)
                            = ApplyClosure(conversions[specific], staged)
               /\ (specific \notin DOMAIN conversions /\ general \in DOMAIN conversions)
                    => get_input(inputs, conversions, port)
                            = ApplyClosure(conversions[general], staged)

\* C10 witness: both conversions are registered for a port, they give different
\* values for its staged value, and the read gives the port-specific one.
C10_Witness ==
    \E port \in DOMAIN inputs :
        LET staged == inputs[port]
            specific == PortSpecific(port.id, staged.type)
            general == into_general(specific)
        IN /\ staged.type # port.id.value_type
           /\ specific \in DOMAIN conversions
           /\ general \in DOMAIN conversions
           /\ ApplyClosure(conversions[specific], staged)
                # ApplyClosure(conversions[general], staged)
           /\ get_input(inputs, conversions, port)
                = ApplyClosure(conversions[specific], staged)

\* C11: a disconnect of an edge that is in the connection set removes the edge
\* and the staged value of its target, so that the next read of the target
\* gives the declared default of the port.
C11_DisconnectClearsStagedValue ==
    [][(/\ last'.op = "disconnect"
        /\ last'.to \in output_connections(connections, last'.from))
        => /\ last'.to \notin output_connections(connections', last'.from)
           /\ get_input_dyn(inputs', last'.to) = NoValue
           /\ get_input(inputs', conversions', last'.to) = InputDefault(last'.to.id)]_vars

\* C11 witness: a disconnect removed an edge whose target held a propagated
\* value other than the default, and the target now reads as the default.
C11_Witness ==
    /\ last.op = "disconnect"
    /\ last.ret = "Ok"
    /\ \E d \in last.dropped :
        /\ d.from = last.from /\ d.to = last.to
        /\ d.value \notin {NoValue, InputDefault(d.to.id)}
        /\ d.to \notin output_connections(connections, d.from)
        /\ get_input(inputs, conversions, d.to) = InputDefault(d.to.id)

\* C12: after remove_instance(h) has returned no edge has its source or its
\* target on h, and every input that was fed by an output of h has no source,
\* has_connection is false for it when it is the source of no edge, and a
\* read of it gives the declared default of the port.
C12_RemoveInstanceClearsEdges ==
    [][(last'.op = "remove_instance" /\ last'.ret = "Ok")
        => /\ \A e \in Edges(connections') :
                last'.instance \notin {e[1].instance, e[2].instance}
           /\ \A e \in Edges(connections) :
                e[1].instance = last'.instance
                    => /\ Sources(connections', e[2]) = {}
                       /\ output_connections(connections', e[2]) = {}
                            => ~has_connection(connections', e[2])
                       /\ get_input(inputs', conversions', e[2])
                            = InputDefault(e[2].id)]_vars

\* C12 witness: remove_instance returned for an instance whose output fed an
\* input of another instance with a value other than the default; the input
\* has no connection left and reads as the default.
C12_Witness ==
    /\ last.op = "remove_instance"
    /\ last.ret = "Ok"
    /\ \E d \in last.dropped :
        /\ d.from.instance = last.instance
        /\ d.to.instance # last.instance
        /\ d.value \notin {NoValue, InputDefault(d.to.id)}
        /\ ~has_connection(connections, d.to)
        /\ get_input(inputs, conversions, d.to) = InputDefault(d.to.id)

C14_SetOutputFrame ==
    [][last'.op = "set_output"
        => LET targets == output_connections(connections, last'.from)
           IN /\ DOMAIN inputs' = DOMAIN inputs \cup targets
              /\ \A to \in targets : inputs'[to] = last'.value
              /\ \A other \in DOMAIN inputs \ targets : inputs'[other] = inputs[other]
              /\ targets = {} => inputs' = inputs
              /\ UNCHANGED <<connections, processing_order, conversions, instances>>]_vars

\* C14 witness: set_output staged its value at a connected input while another
\* input keeps the different value staged before.
C14_Witness ==
    /\ last.op = "set_output"
    /\ output_connections(connections, last.from) # {}
    /\ \A to \in output_connections(connections, last.from) : inputs[to] = last.value
    /\ \E other \in DOMAIN inputs \ output_connections(connections, last.from) :
            inputs[other] # last.value

(***************************************************************************)
(* The audio output: StreamInstance (src/src/output.rs) and the tick of    *)
(* App::process (src/src/app.rs).  The producer half of the ring buffer is *)
(* used by the tick on the main thread, the consumer half by the stream    *)
(* callback on the audio thread; a step of one may come between any two    *)
(* steps of the other.  Producer::push_iter looks at the vacant space      *)
(* once, writes the items it takes from its iterator into it and then      *)
(* publishes them by advancing the tail; Consumer::pop advances the head.  *)
(* muted and protection keep their initial value false.                    *)
(***************************************************************************)
MaxRateSteps == 1

MaxChunks == 2

\* the sample rates of the devices: multiples of 20
SampleRates == {20 * k : k \in 1 .. MaxRateSteps}

\* (sample_rate as f32 * 0.15) as usize
ringbuf_size(sample_rate) == (sample_rate * 15) \div 100

\* StreamInstance.volume
Volume == One \div 2

\* free_len that takes the buffer for empty
free_len_of_empty_buffer(rb) == rb.capacity

\* StreamInstance::free_len
free_len(rb) == rb.capacity - Len(rb.frames)

\* the vacant space push_iter sees, larger by one than it is
vacant_len_one_too_many(rb) == rb.capacity - Len(rb.frames) + 1

\* the vacant space Producer::push_iter sees
vacant_len(rb) == rb.capacity - Len(rb.frames)

\* Consumer::pop: None is NoValue
pop(rb) ==
    IF rb.frames = <<>> THEN [rb |-> rb, item |-> NoValue]
    ELSE [rb |-> [rb EXCEPT !.frames = Tail(@)], item |-> Head(rb.frames)]

\* unwrap_or_default that makes a full-scale frame of None
unwrap_or_full_scale(item) == IF item = NoValue THEN Mono(One) ELSE item

\* Option::unwrap_or_default
unwrap_or_default(item) == IF item = NoValue THEN FrameDefault ELSE item

\* the frames a module sent during one frame of process_amount
FrameLists == {<<>>, <<Mono(One)>>}

\* let mut mixed = Frame::ZERO; for frame in frames { mixed += frame }
RECURSIVE Mixed(_, _)
Mixed(mixed, frames) ==
    IF frames = <<>> THEN mixed ELSE Mixed(FrameAdd(mixed, Head(frames)), Tail(frames))

\* the closure of push_iter applied to the frames the producer takes
MaxInits == 1

\* Output::sample_rate_or_default: the fallback sample rate
DefaultRate == 44100

\* the whole seconds a tick can find elapsed since the one before
ElapsedSecs == {1, 1523}

\* the values the user drags the volume to
Volumes == {Volume, One}

\* StreamInstance::new: the fields of the instance
StreamInstanceNew(id, sample_rate) ==
    [present |-> TRUE, id |-> id, is_err |-> FALSE, sample_rate |-> sample_rate,
     volume |-> Volume, muted |-> FALSE, protection |-> FALSE]

\* the amplitude asked for when only muted silences the output
amplitude_target_ignoring_protection(self) == IF self.muted THEN 0 ELSE self.volume

\* push_iter: the input of damper.frame
amplitude_target(self) ==
    IF self.muted \/ self.protection THEN 0 ELSE self.volume

\* the closure of push_iter applied to the frames the producer takes
RECURSIVE Amplified(_, _, _)
Amplified(self, target, frames) ==
    IF frames = <<>> THEN [damper |-> self, items |-> <<>>]
    ELSE LET stepped == frame(self, target)
             rest == Amplified(stepped, target, Tail(frames))
         IN [damper |-> rest.damper,
             items |-> <<FrameMul(Head(frames), stepped.current)>> \o rest.items]

Min(a, b) == IF a < b THEN a ELSE b

\* LinearDamper::cutoff_samples: the number of samples of one period at the
\* cutoff, 1 / max_dif
cutoff_samples(self) == (One + self.max_dif \div 2) \div self.max_dif

\* StreamInstance::show: the protection flag
protection_flag(rb, self) == free_len(rb) > cutoff_samples(self)

\* Output::check_instance that keeps a failed instance
check_instance_keeping_failed(self) == self

\* Output::check_instance
check_instance(self) ==
    IF self.present /\ self.is_err THEN [NoStream EXCEPT !.id = self.id] ELSE self

\* Output::sample_rate_or_default
sample_rate_or_default(self) == IF self.present THEN self.sample_rate ELSE DefaultRate

\* Duration::as_secs_f32 of a whole number of seconds
as_secs_f32(secs) == fl(secs)

\* (sample_rate as f32 * delta.as_secs_f32()) as usize
wall_clock_samples(sample_rate, secs) == fl(fl(sample_rate) * as_secs_f32(secs))

RackUntouched ==
    UNCHANGED <<instances, next_handle, inputs, connections, conversions,
                processing_order, panicked, writes, last, process_vars, module_vars>>

\* the instance is dropped: its stream, ring buffer and damper go with it
NoDevice ==
    /\ ring' = HeapRbNew(0)
    /\ callback' = NoCallback
    /\ damper' = LinearDamperNew(One, 0)

\* Output::init_instance succeeds on a device of sample_rate
NewDevice(sample_rate) ==
    /\ ring' = HeapRbNew(ringbuf_size(sample_rate))
    /\ callback' = NoCallback
    /\ damper' = new_cutoff(sample_rate)

\* the outcomes of Output::init_instance: 0 when no device or stream is to
\* be had
InitOutcomes(self) == IF self.id <= MaxInits THEN {0} \cup SampleRates ELSE {0}

\* StreamInstance::show: the mute icon, the volume drag, the protection
shown(self, rb, dmp, click, drag) ==
    [self EXCEPT !.muted = IF click THEN ~@ ELSE @,
                 !.volume = drag,
                 !.protection = protection_flag(rb, dmp)]

\* App::update up to Output::show, secs after the tick before
TickShow(secs, click, drag) ==
    /\ tick.pc = "idle"
    /\ tick' = [NoTick EXCEPT !.pc = "shown", !.delta = secs,
                              !.erred = stream.present /\ stream.is_err,
                              !.start_id = stream.id]
    /\ LET checked == check_instance(stream)
       IN IF checked.present
          THEN /\ stream' = shown(checked, ring, damper, click, drag)
               /\ UNCHANGED <<ring, callback, damper>>
          ELSE \E init \in InitOutcomes(checked), retry \in InitOutcomes(checked) :
                 IF init # 0
                 THEN /\ NewDevice(init)
                      /\ stream' = shown(StreamInstanceNew(checked.id + 1, init),
                                         ring', damper', click, drag)
                 ELSE IF click /\ retry # 0
                      THEN /\ NewDevice(retry)
                           /\ stream' = StreamInstanceNew(checked.id + 1, retry)
                      ELSE /\ NoDevice
                           /\ stream' = checked
    /\ RackUntouched
    /\ UNCHANGED run

\* App::process: with a device free_len, process_amount and the mixing;
\* without one process_amount paced by the wall clock
TickProcess ==
    /\ tick.pc = "shown"
    /\ LET checked == check_instance(stream)
       IN /\ stream' = checked
          /\ IF checked.present
             THEN /\ \E frames \in FrameLists :
                       tick' = [tick EXCEPT
                                   !.pc = "produced", !.paced = "buffer",
                                   !.rate = checked.sample_rate,
                                   !.amount = free_len(ring),
                                   !.free = free_len(ring),
                                   !.outputs = [i \in 1 .. free_len(ring) |->
                                                   Mixed(ZERO, frames)]]
                  /\ UNCHANGED <<ring, callback, damper>>
             ELSE /\ tick' = [tick EXCEPT
                                 !.pc = "idle", !.paced = "clock",
                                 !.rate = sample_rate_or_default(checked),
                                 !.amount = wall_clock_samples(
                                                sample_rate_or_default(checked),
                                                tick.delta)]
                  /\ NoDevice
    /\ RackUntouched
    /\ UNCHANGED run

\* StreamInstance::push_iter called with any number of frames
PushIter(n) ==
    /\ tick.pc = "idle"
    /\ \E frames \in FrameLists :
        tick' = [NoTick EXCEPT !.pc = "produced", !.free = free_len(ring),
                               !.outputs = [i \in 1 .. n |-> Mixed(ZERO, frames)]]
    /\ RackUntouched
    /\ UNCHANGED <<ring, callback, stream, damper_vars>>

\* push_iter: the items taken from the iterator are written into the vacant
\* space
TickPushBegin ==
    /\ tick.pc = "produced"
    /\ LET count == Min(vacant_len(ring), Len(tick.outputs))
           mapped == Amplified(damper, amplitude_target(stream),
                               SubSeq(tick.outputs, 1, count))
       IN /\ damper' = mapped.damper
          /\ tick' = [tick EXCEPT !.pc = "pushing", !.items = mapped.items,
                                  !.before = damper]
    /\ RackUntouched
    /\ UNCHANGED <<ring, callback, stream, run>>

\* push_iter: the tail is advanced over the items written
TickPushEnd ==
    /\ tick.pc = "pushing"
    /\ ring' = [ring EXCEPT !.frames = @ \o tick.items]
    /\ tick' = [tick EXCEPT !.pc = "idle", !.done = TRUE]
    /\ RackUntouched
    /\ UNCHANGED <<callback, stream, damper_vars>>

\* the error callback of the stream
StreamError ==
    /\ stream.present
    /\ ~stream.is_err
    /\ stream' = [stream EXCEPT !.is_err = TRUE]
    /\ RackUntouched
    /\ UNCHANGED <<ring, tick, callback, damper_vars>>

\* the device asks for n stereo chunks
CallbackStart(n) ==
    /\ stream.present
    /\ callback.pc = "idle"
    /\ callback' = [pc |-> "running", chunks |-> n, data |-> <<>>, empty |-> <<>>]
    /\ RackUntouched
    /\ UNCHANGED <<ring, tick, stream, damper_vars>>

\* one chunk of the callback's loop
CallbackChunk ==
    /\ callback.pc = "running"
    /\ LET popped == pop(ring)
       IN /\ ring' = popped.rb
          /\ callback' = [pc |-> IF callback.chunks = 1 THEN "idle" ELSE "running",
                          chunks |-> callback.chunks - 1,
                          data |-> Append(callback.data,
                                          as_f32_tuple(unwrap_or_default(popped.item))),
                          empty |-> Append(callback.empty, popped.item = NoValue)]
    /\ RackUntouched
    /\ UNCHANGED <<tick, stream, damper_vars>>

\* StreamInstance::new on a device of one of the sample rates, in an App
\* whose rack is empty
InitDevice(rates) ==
    /\ instances = EmptyMap
    /\ next_handle = 1
    /\ inputs = EmptyMap
    /\ connections = EmptyMap
    /\ conversions = DefaultConversions
    /\ processing_order = <<>>
    /\ panicked = FALSE
    /\ writes = 0
    /\ last = Call("new", 0, NoPort, NoPort, NoResult, "none", NoValue)
    /\ clock = 0
    /\ stamps = EmptyMap
    /\ reads = {}
    /\ collected = <<>>
    /\ calls = <<>>
    /\ sends = {}
    /\ \E sample_rate \in rates :
        /\ ring = HeapRbNew(ringbuf_size(sample_rate))
        /\ damper = new_cutoff(sample_rate)
        /\ stream = StreamInstanceNew(1, sample_rate)
    /\ tick = NoTick
    /\ callback = NoCallback
    /\ file = FileDefault
    /\ scope = ScopeDefault
    /\ run = NoRun

InitAudio == InitDevice(SampleRates)

NextAudio ==
    \/ \E secs \in ElapsedSecs, click \in BOOLEAN, drag \in Volumes :
          TickShow(secs, click, drag)
    \/ TickProcess
    \/ TickPushBegin
    \/ TickPushEnd
    \/ StreamError
    \/ \E n \in 1 .. MaxChunks : CallbackStart(n)
    \/ CallbackChunk

SpecAudio == InitAudio /\ [][NextAudio]_vars

\* the ring buffer under pushes of any length
NextRing ==
    \/ \E n \in 0 .. ring.capacity + 1 : PushIter(n)
    \/ TickPushBegin
    \/ TickPushEnd
    \/ \E n \in 1 .. MaxChunks : CallbackStart(n)
    \/ CallbackChunk

SpecRing == InitAudio /\ [][NextRing]_vars

MaxPushRateSteps == 2
MaxPush == 2

\* sample rates whose damper needs more than one step from 0.0 to 1.0
PushRates == {20 * k : k \in 2 .. MaxPushRateSteps}

\* Output::show with a device that has not failed
Show(click, drag) ==
    /\ tick.pc = "idle"
    /\ stream.present
    /\ stream' = shown(stream, ring, damper, click, drag)
    /\ RackUntouched
    /\ UNCHANGED <<ring, tick, callback, damper_vars>>

InitPush == InitDevice(PushRates)

\* push_iter under every setting of the mute icon, the volume and the
\* protection
NextPush ==
    \/ \E click \in BOOLEAN, drag \in Volumes : Show(click, drag)
    \/ \E n \in 1 .. MaxPush : PushIter(n)
    \/ TickPushBegin
    \/ TickPushEnd
    \/ CallbackStart(1)
    \/ CallbackChunk

SpecPush == InitPush /\ [][NextPush]_vars

C17_TickPushesAllProduced ==
    /\ tick.pc # "idle" => Len(tick.outputs) = tick.free
    /\ tick.pc = "produced" => Len(tick.outputs) <= vacant_len(ring)
    /\ (tick.pc = "pushing" \/ (tick.pc = "idle" /\ tick.done))
          => /\ Len(tick.items) = Len(tick.outputs)
             /\ Len(tick.items) = tick.free

\* C17 witness: push_iter took every frame of a tick during which the
\* callback popped a frame after free_len was observed.
C17_Witness ==
    /\ tick.pc = "pushing"
    /\ tick.free > 0
    /\ Len(tick.items) = tick.free
    /\ vacant_len(ring) > tick.free

\* the damper after n calls of frame(target)
RECURSIVE StepsToward(_, _, _)
StepsToward(self, target, n) ==
    IF n = 0 THEN self ELSE frame(StepsToward(self, target, n - 1), target)

\* C21: push_iter steps the damper once for every frame it takes, toward 0
\* when the output is muted or protected and toward the volume otherwise;
\* the i-th item is the i-th mixed frame times the damper's value after i
\* steps, and these items are what is appended to the ring buffer.
C21_FramesScaledByDamper ==
    /\ [][(tick.pc = "produced" /\ tick'.pc = "pushing") =>
            LET target == IF stream.muted \/ stream.protection
                          THEN 0 ELSE stream.volume
                n == Len(tick'.items)
            IN /\ n <= Len(tick.outputs)
               /\ \A i \in 1 .. n :
                     tick'.items[i] =
                        FrameMul(tick.outputs[i],
                                 StepsToward(damper, target, i).current)
               /\ damper' = StepsToward(damper, target, n)]_vars
    /\ [][(tick.pc = "pushing" /\ tick'.pc = "idle") =>
            ring'.frames = ring.frames \o tick.items]_vars

\* C21 witness: frames of full scale were pushed while the flag was set and
\* the damper was still above zero when the push began, and the damper took
\* more than one step to get to zero.
C21_Witness ==
    /\ tick.pc = "pushing"
    /\ stream.protection
    /\ ~stream.muted
    /\ Len(tick.items) >= 2
    /\ tick.outputs[1] = Mono(One)
    /\ tick.before.current = One
    /\ tick.items[1] # tick.items[2]
    /\ damper.current = 0

\* C22: the Output::show of every tick that leaves a device attached leaves
\* the protection flag set exactly when the free length of its ring buffer
\* exceeds cutoff_samples; while the flag is set the tick still produces
\* free_len frames and pushes them all, scaled by a damper stepped toward 0.
C22_ProtectionTracksFreeLength ==
    /\ [][(tick.pc = "idle" /\ tick'.pc = "shown" /\ stream'.present) =>
            (stream'.protection <=> free_len(ring') > cutoff_samples(damper'))]_vars
    /\ [][(tick.pc = "produced" /\ tick'.pc = "pushing" /\ stream.protection) =>
            /\ Len(tick'.items) = tick.free
            /\ damper' = StepsToward(damper, 0, tick.free)]_vars

\* C24: a tick whose App::process finds no device calls process_amount with
\* the sample rate 44100 and 44100 times the elapsed seconds as the number
\* of frames, and pushes nothing: it ends with no frame in any ring buffer.
C24_WallClockFrames ==
    [][(tick.pc = "shown" /\ tick'.pc # "shown" /\ ~stream'.present) =>
          /\ tick'.pc = "idle"
          /\ tick'.paced = "clock"
          /\ tick'.rate = 44100
          /\ tick'.amount = 44100 * tick.delta
          /\ tick'.items = <<>>
          /\ ring'.frames = <<>>]_vars

\* C25: every instance_mut of a tick (in Output::show and in App::process)
\* leaves no device whose error flag is set; a tick that began with the flag
\* set pushes only to a device initialised since; App::process is paced by
\* the wall clock at the fallback rate exactly when it finds no device, by
\* the buffer of the device otherwise.
C25_FailedStreamDiscarded ==
    /\ [][(tick.pc \in {"idle", "shown"} /\ tick'.pc # tick.pc) =>
            /\ ~(stream'.present /\ stream'.is_err)
            /\ stream.is_err => stream'.id # stream.id \/ ~stream'.present]_vars
    /\ []((tick.erred /\ tick.pc \in {"produced", "pushing"}) =>
            /\ stream.present
            /\ stream.id # tick.start_id)
    /\ [][(tick.pc = "shown" /\ tick'.pc # "shown") =>
            IF stream'.present
            THEN tick'.paced = "buffer" /\ tick'.rate = stream'.sample_rate
            ELSE /\ tick'.paced = "clock"
                 /\ tick'.rate = DefaultRate
                 /\ tick'.pc = "idle"
                 /\ ring'.frames = <<>>]_vars

\* C25 witness: the error flag was set when the tick began, no device could
\* be initialised, and the tick was paced by the wall clock.
C25_Witness ==
    /\ tick.erred
    /\ tick.pc = "idle"
    /\ tick.paced = "clock"
    /\ tick.amount > 0
    /\ ~stream.present

\* C18: a chunk of the callback that finds the buffer empty writes (0, 0)
\* and leaves the buffer as it is; every step of the callback removes at
\* most the oldest frame and adds none; a running callback can always take
\* its next step.
C18_UnderrunWritesSilence ==
    /\ [](callback.pc = "running" => ENABLED CallbackChunk)
    /\ [][Len(callback'.data) = Len(callback.data) + 1 =>
             /\ (callback.pc = "running" /\ ring.frames = <<>>)
                   => /\ ring' = ring
                      /\ callback'.data = Append(callback.data, <<0, 0>>)
             /\ ring'.capacity = ring.capacity
             /\ ring'.frames \in {ring.frames,
                                  SubSeq(ring.frames, 2, Len(ring.frames))}]_vars

\* C18 witness: the callback took the last frame and then found the buffer
\* empty.
C18_Witness ==
    /\ Len(callback.empty) = 2
    /\ ~callback.empty[1]
    /\ callback.empty[2]
    /\ callback.data[1] # <<0, 0>>
    /\ callback.data[2] = <<0, 0>>
    /\ ring.frames = <<>>

(***************************************************************************)
(* LinearDamper::frame called again and again (once per pushed frame) with *)
(* the amplitude the output asks for: the volume, which the user drags in  *)
(* steps of 0.01 between 0.0 and 1.0, or 0.0 when muted.                   *)
(***************************************************************************)
MaxCutoffSteps == 3

MaxCalls == 4

MaxTargets == 2

\* 0.01f32, in units of 2^-30
VolumeStep == 10737418

CutoffRates == {20 * k : k \in 1 .. MaxCutoffSteps}

Targets == {0, VolumeStep, Volume, One}

CeilDiv(a, b) == IF a % b = 0 THEN a \div b ELSE a \div b + 1

\* the amplitude asked for changes
SetTarget(target) ==
    /\ run.targets < MaxTargets
    /\ target # run.target
    /\ run' = [target |-> target, start |-> damper.current, calls |-> 0,
               previous |-> damper.current, returned |-> damper.current,
               targets |-> run.targets + 1]
    /\ RackUntouched
    /\ UNCHANGED <<output_vars, damper>>

\* self.damper.frame(target)
FrameCall ==
    /\ run.calls < MaxCalls
    /\ damper' = frame(damper, run.target)
    /\ run' = [run EXCEPT !.calls = @ + 1, !.previous = damper.current,
                          !.returned = damper'.current]
    /\ RackUntouched
    /\ UNCHANGED output_vars

InitDamper ==
    /\ instances = EmptyMap
    /\ next_handle = 1
    /\ inputs = EmptyMap
    /\ connections = EmptyMap
    /\ conversions = DefaultConversions
    /\ processing_order = <<>>
    /\ panicked = FALSE
    /\ writes = 0
    /\ last = Call("new", 0, NoPort, NoPort, NoResult, "none", NoValue)
    /\ clock = 0
    /\ stamps = EmptyMap
    /\ reads = {}
    /\ collected = <<>>
    /\ calls = <<>>
    /\ sends = {}
    /\ ring = HeapRbNew(0)
    /\ tick = NoTick
    /\ callback = NoCallback
    /\ stream = NoStream
    /\ file = FileDefault
    /\ scope = ScopeDefault
    /\ \E sample_rate \in CutoffRates : damper = new_cutoff(sample_rate)
    /\ run = NoRun

NextDamper ==
    \/ \E target \in Targets : SetTarget(target)
    \/ FrameCall

SpecDamper == InitDamper /\ [][NextDamper]_vars

\* C19: with a constant target t set when current was s, a call of frame
\* moves current toward t without passing it, and from the
\* ceil(|t - s| / max_dif)-th call on every call returns t.
C19_ConvergesWithinBound ==
    [][run'.calls = run.calls + 1 =>
          /\ run'.calls >= CeilDiv(Abs(run.target - run.start), damper.max_dif)
                => run'.returned = run.target
          /\ run.start <= run.target
                => (run'.previous <= run'.returned /\ run'.returned <= run.target)
          /\ run.start >= run.target
                => (run'.previous >= run'.returned /\ run'.returned >= run.target)]_vars

\* C20: a call of frame changes current by at most max_dif and returns the
\* new current.
C20_StepWithinMaxDif ==
    [][run'.calls = run.calls + 1 =>
          /\ Abs(damper'.current - damper.current) <= damper.max_dif
          /\ run'.returned = damper'.current]_vars

(***************************************************************************)
(* Rack::process_amount over Operation<f32> instances.  Frames are numbered *)
(* from 1 by the clock; every staged input carries the number of the frame *)
(* in which it was written.                                                *)
(***************************************************************************)
MaxFrames == 2

\* channel: the frames sent and not yet received; frames: the Vec returned;
\* sends: every frame sent, with the frame number and the sender
ProcessNew(inp, st, rd, pan) ==
    [inputs |-> inp, stamps |-> st, reads |-> rd, panicked |-> pan,
     channel |-> <<>>, frames |-> <<>>, sends |-> {}, calls |-> <<>>]

\* what ProcessContext::get_input finds at an input in frame k: the frame in
\* which the staged value was written, 0 when nothing is staged
ReadOf(ctx, k, port) ==
    [frame |-> k, to |-> port,
     written |-> IF port \in DOMAIN ctx.inputs THEN ctx.stamps[port] ELSE 0]

\* ProcessContext::set_output in frame k
ctx_set_output(ctx, conn, k, port, value) ==
    LET staged == set_output_dyn(ctx.inputs, conn, port, value)
    IN [ctx EXCEPT !.inputs = staged,
                   !.stamps = [p \in DOMAIN staged |->
                                  IF p \in output_connections(conn, port) THEN k
                                  ELSE ctx.stamps[p]]]

\* Operation::process with the default Operator::Add, in frame k
OperationProcess(ctx, conn, conv, k, handle) ==
    LET in_a == PortHandleNew(InValueA, handle)
        in_b == PortHandleNew(InValueB, handle)
        a == get_input(ctx.inputs, conv, in_a)
        b == get_input(ctx.inputs, conv, in_b)
        read == [ctx EXCEPT !.reads = @ \cup {ReadOf(ctx, k, in_a), ReadOf(ctx, k, in_b)}]
    IN ctx_set_output(read, conn, k, PortHandleNew(OutValue, handle),
                      Boxed("f32", <<f32_add(a.ch[1], b.ch[1])>>))

\* Audio.volume of Audio::default
AudioVolume == One

\* Audio::process of an instance that holds the rack's sender: the frame
\* Frame::Mono(input * volume) is sent to the rack
AudioProcess(ctx, conv, k, handle) ==
    LET value == get_input(ctx.inputs, conv, PortHandleNew(FrameInput, handle))
        sent == Mono(f32_mul(value.ch[1], AudioVolume))
    IN [ctx EXCEPT !.channel = Append(@, sent),
                   !.sends = @ \cup {[frame |-> k, from |-> handle, value |-> sent]}]

\* instance.module.process(&mut ctx)
ModuleProcess(inst, ctx, conn, conv, k, handle) ==
    LET called == [ctx EXCEPT !.calls = Append(@, <<k, handle>>)]
    IN IF inst[handle] = "Audio" THEN AudioProcess(called, conv, k, handle)
       ELSE OperationProcess(called, conn, conv, k, handle)

\* a collect that leaves the frames it saw in the channel
try_iter_collect_peeking(channel) == [collected |-> channel, left |-> channel]

\* self.receiver.try_iter().collect(): every frame waiting in the channel is
\* received
try_iter_collect(channel) == [collected |-> channel, left |-> <<>>]

\* one frame: every pointer in order, then frames.push of what the receiver
\* holds
RECURSIVE ProcessFrame(_, _, _, _, _, _)
ProcessFrame(inst, ctx, conn, conv, k, pointers) ==
    IF pointers = <<>>
    THEN LET received == try_iter_collect(ctx.channel)
         IN [ctx EXCEPT !.frames = Append(@, received.collected),
                        !.channel = received.left]
    ELSE ProcessFrame(inst, ModuleProcess(inst, ctx, conn, conv, k, Head(pointers)),
                      conn, conv, k, Tail(pointers))

\* the frames k + 1 .. k + amount
RECURSIVE ProcessFrames(_, _, _, _, _, _, _)
ProcessFrames(inst, ctx, conn, conv, k, amount, pointers) ==
    IF amount = 0 THEN ctx
    ELSE ProcessFrames(inst, ProcessFrame(inst, ctx, conn, conv, k + 1, pointers),
                       conn, conv, k + 1, amount - 1, pointers)

\* process_amount that runs the loop over the frames once more
process_amount_one_frame_more(inst, ctx, conn, conv, order, k, amount) ==
    IF \E i \in 1 .. Len(Flatten(order)) : Flatten(order)[i] \notin DOMAIN inst
    THEN [ctx EXCEPT !.panicked = TRUE]
    ELSE ProcessFrames(inst, ctx, conn, conv, k, amount + 1, Flatten(order))

\* Rack::process_amount: instances.get_mut(handle).unwrap() for every handle
\* of the flattened order, then the frames
process_amount(inst, ctx, conn, conv, order, k, amount) ==
    IF \E i \in 1 .. Len(Flatten(order)) : Flatten(order)[i] \notin DOMAIN inst
    THEN [ctx EXCEPT !.panicked = TRUE]
    ELSE ProcessFrames(inst, ctx, conn, conv, k, amount, Flatten(order))

ProcessAmount(amount) ==
    /\ ~panicked
    /\ clock + amount <= MaxFrames
    /\ LET done == process_amount(instances, ProcessNew(inputs, stamps, {}, FALSE),
                                  connections, conversions, processing_order, clock, amount)
       IN /\ inputs' = done.inputs
          /\ stamps' = done.stamps
          /\ reads' = done.reads
          /\ panicked' = done.panicked
          /\ collected' = done.frames
          /\ calls' = done.calls
          /\ sends' = done.sends
    /\ clock' = clock + amount
    /\ last' = Call("process_amount", amount, NoPort, NoPort, NoResult, "none", NoValue)
    /\ UNCHANGED <<instances, next_handle, connections, conversions, processing_order, writes>>
    /\ UNCHANGED <<output_vars, damper_vars, module_vars>>

\* three Operation<f32> instances wired through Rack::connect, which leaves
\* the order it computed for the present connections in Io.processing_order
InitProcess ==
    /\ instances = [h \in OrderInstances |-> "Operation"]
    /\ next_handle = MaxOrderInstances + 1
    /\ inputs = EmptyMap
    /\ \E wiring \in [OrderInputs -> 0 .. MaxOrderInstances] :
        /\ Cardinality({p \in OrderInputs : wiring[p] # 0}) <= MaxOrderEdges
        /\ \A p \in OrderInputs : wiring[p] # p.instance
        /\ connections = WiredConnections(wiring)
    /\ conversions = DefaultConversions
    /\ \E result \in compute_instances_processing_order(connections) :
        /\ result.ok
        /\ processing_order = result.list
    /\ panicked = FALSE
    /\ writes = 0
    /\ last = Call("new", 0, NoPort, NoPort, NoResult, "none", NoValue)
    /\ Idle

NextProcess == \E amount \in 0 .. MaxFrames : ProcessAmount(amount)

SpecProcess == InitProcess /\ [][NextProcess]_vars

MaxSinks == 2

\* the values staged at the inputs of the Operation: 0 stands for none
StagedValues == {0, 2, 4}

\* the staged inputs of Operation 1
StagedInputs(a, b) ==
    [p \in {PortHandleNew(InValueA, 1) : x \in {a} \ {0}}
            \cup {PortHandleNew(InValueB, 1) : x \in {b} \ {0}} |->
        IF p.id = InValueA THEN Boxed("f32", <<a>>) ELSE Boxed("f32", <<b>>)]

\* the output of Operation 1 connected to the inputs of the sinks in wired
SinkConnections(wired) ==
    IF wired = {} THEN EmptyMap
    ELSE [from \in {PortHandleNew(OutValue, 1)} |->
             {PortHandleNew(FrameInput, h) : h \in wired}]

\* an Operation<f32> and up to MaxSinks Audio instances, some of them fed by
\* the Operation through Rack::connect
InitMix ==
    /\ \E sinks \in 0 .. MaxSinks :
        /\ instances = [h \in 1 .. sinks + 1 |-> IF h = 1 THEN "Operation" ELSE "Audio"]
        /\ next_handle = sinks + 2
        /\ \E wired \in SUBSET (2 .. sinks + 1) : connections = SinkConnections(wired)
    /\ \E a \in StagedValues, b \in StagedValues :
        /\ inputs = StagedInputs(a, b)
        /\ stamps = [p \in DOMAIN StagedInputs(a, b) |-> 0]
    /\ conversions = DefaultConversions
    /\ \E result \in compute_instances_processing_order(connections) :
        /\ result.ok
        /\ processing_order = result.list
    /\ panicked = FALSE
    /\ writes = 0
    /\ last = Call("new", 0, NoPort, NoPort, NoResult, "none", NoValue)
    /\ clock = 0
    /\ reads = {}
    /\ collected = <<>>
    /\ calls = <<>>
    /\ sends = {}
    /\ ring = HeapRbNew(0)
    /\ tick = NoTick
    /\ callback = NoCallback
    /\ damper = LinearDamperNew(One, 0)
    /\ run = NoRun
    /\ stream = NoStream
    /\ file = FileDefault
    /\ scope = ScopeDefault

SpecMix == InitMix /\ [][NextProcess]_vars

\* C15: after process_amount over an acyclic graph, every read of a
\* connected input in frame k found the value its producer wrote in frame k
C15_ReadsSeeSameFrame ==
    (last.op = "process_amount" /\ Acyclic(get_instances_dependencies(connections)))
        => \A r \in reads : Sources(connections, r.to) # {} => r.written = r.frame

\* the frames sent in frame k, added up
RECURSIVE SumOfSends(_)
SumOfSends(set) ==
    IF set = {} THEN ZERO
    ELSE LET one == CHOOSE x \in set : TRUE
         IN FrameAdd(SumOfSends(set \ {one}), one.value)

\* the Audio instances of the processing order
SinksProcessed == {h \in DOMAIN instances :
                      /\ instances[h] = "Audio"
                      /\ \E i \in 1 .. Len(Flatten(processing_order)) :
                             Flatten(processing_order)[i] = h}

C27_OrderOfPresentConnections ==
    ~panicked =>
        \E result \in compute_instances_processing_order(connections) :
            /\ result.ok
            /\ result.list = processing_order

\* C27 witness: a disconnect removed an edge and returned, and the order
\* still holds the instances of the edges that are left.
C27_Witness ==
    /\ last.op = "disconnect"
    /\ last.dropped # {}
    /\ ~panicked
    /\ Edges(connections) # {}
    /\ processing_order # <<>>

MaxPortEdges == 1

\* Rack::connect as any caller of the public API can call it: both arguments
\* are port handles of live instances; Rack::disconnect of an edge
NextPorts ==
    \/ AddModule("Operation", MaxValueInstances)
    \/ \E from \in LivePorts(instances), to \in LivePorts(instances) :
          EdgeCount(connections) < MaxPortEdges /\ Connect(from, to)
    \/ \E edge \in Edges(connections) : Disconnect(edge[1], edge[2])

SpecPorts == Init /\ [][NextPorts]_vars

\* the ports the module kinds declare
OutputIds == UNION {KindOutputs(kind) : kind \in Kinds}
InputIds == UNION {KindInputs(kind) : kind \in Kinds}

\* C28: while no call has aborted, every edge of the connection set goes
\* from a declared output port to a declared input port, and a connect that
\* was accepted had an output port as from and an input port as to.
C28_EdgesFromOutputToInput ==
    /\ ~panicked =>
          \A e \in Edges(connections) : e[1].id \in OutputIds /\ e[2].id \in InputIds
    /\ (last.op = "connect" /\ last.ret = "Ok")
          => (last.from.id \in OutputIds /\ last.to.id \in InputIds)

\* C30: after an Io::connect that was accepted and returned, the input it
\* connected has exactly one source, the output given.
C30_IoConnectReplaces ==
    (last.op = "io_connect" /\ last.ret = "Ok")
        => Sources(connections, last.to) = {last.from}

\* C31: process_amount(sample_rate, n) that returns has pushed n entries
\* and has called process on the instances of the flattened order, in that
\* order, once for each of the n frames, all calls of one frame before the
\* first call of the next; with n = 0 there is no call and no entry.
C31_EveryInstanceEveryFrame ==
    (last.op = "process_amount" /\ ~panicked) =>
        LET n == last.instance
            pointers == Flatten(processing_order)
            width == Len(pointers)
        IN /\ Len(collected) = n
           /\ Len(calls) = n * width
           /\ \A i \in 1 .. Len(calls) :
                 calls[i] = <<clock - n + ((i - 1) \div width) + 1,
                              pointers[((i - 1) % width) + 1]>>
           /\ n = 0 => (calls = <<>> /\ collected = <<>> /\ reads = {})

\* C31 witness: two frames over an order of at least two instances.
C31_Witness ==
    /\ last.op = "process_amount"
    /\ ~panicked
    /\ last.instance = 2
    /\ Len(Flatten(processing_order)) >= 2
    /\ Len(calls) = 2 * Len(Flatten(processing_order))

\* C32: when compute_instances_processing_order returns Ok, no instance
\* occurs twice in the flattened order, and the instances in it are exactly
\* the instances at either end of an edge of the connection set.
C32_OrderHoldsEndpointsOnce ==
    (last.op = "compute_order" /\ last.ret = "Ok") =>
        LET pointers == Flatten(processing_order)
        IN /\ \A i \in 1 .. Len(pointers), j \in 1 .. Len(pointers) :
                 pointers[i] = pointers[j] => i = j
           /\ {pointers[i] : i \in 1 .. Len(pointers)}
                 = {e[1].instance : e \in Edges(connections)}
                      \cup {e[2].instance : e \in Edges(connections)}

\* C32 witness: an order of three instances in more than one level.
C32_Witness ==
    /\ last.op = "compute_order"
    /\ last.ret = "Ok"
    /\ Len(Flatten(processing_order)) = 3
    /\ Len(processing_order) >= 2
    /\ EdgeCount(connections) = 3

\* C33: a disconnect(from, to) called while the edge from -> to is not in
\* the connection set leaves the connection set, every staged input value
\* and the processing order as they were.
C33_DisconnectOfNoEdgeIsNoOp ==
    [][(/\ last'.op = "disconnect"
        /\ last'.to \notin output_connections(connections, last'.from))
        => /\ connections' = connections
           /\ inputs' = inputs
           /\ processing_order' = processing_order]_vars

\* C34: a connect(from, to) that returns Ok leaves every edge into an input
\* other than `to` in the connection set, adds no such edge, and leaves the
\* staged value of every input other than `to` as it was.
C34_ConnectTouchesOnlyTarget ==
    [][(last'.op = "connect" /\ last'.ret = "Ok")
        => /\ {e \in Edges(connections') : e[2] # last'.to}
                = {e \in Edges(connections) : e[2] # last'.to}
           /\ \A port \in (DOMAIN inputs \cup DOMAIN inputs') \ {last'.to} :
                 get_input_dyn(inputs', port) = get_input_dyn(inputs, port)]_vars

\* C34 witness: a connect has replaced the source of an input; the displaced
\* source still feeds another input, and that input holds a staged value.
C34_Witness ==
    /\ last.op = "connect"
    /\ last.ret = "Ok"
    /\ last.can.kind = "Replace"
    /\ Sources(connections, last.to) = {last.from}
    /\ \E other \in output_connections(connections, last.can.a) :
          /\ other # last.to
          /\ get_input_dyn(inputs, other) # NoValue

\* C35: every staged value has the declared type of its input port or a type
\* with a registered conversion to that port, and get_input on any input
\* port of a live instance returns a value of the port's declared type:
\* neither expect of try_get_input and try_convert fails.
C35_StagedValuesAreReadable ==
    /\ \A port \in DOMAIN inputs :
          \/ inputs[port].type = port.id.value_type
          \/ get_conversion(conversions, port.id, inputs[port].type) # "none"
    /\ \A port \in LiveInputs(instances) \cup DOMAIN inputs :
          /\ get_input(inputs, conversions, port) # PanicValue
          /\ get_input(inputs, conversions, port).type = port.id.value_type

\* C35 witness: an input holds a staged value of another type than it
\* declares, written by the output it is connected to, and reads it through
\* the conversion.
C35_Witness ==
    /\ last.op = "set_output"
    /\ \E port \in output_connections(connections, last.from) :
          /\ inputs[port].type # port.id.value_type
          /\ get_input(inputs, conversions, port).type = port.id.value_type
          /\ get_input(inputs, conversions, port) # InputDefault(port.id)

\* C36: the outcome of compute_instances_processing_order on a connection
\* set is the same for every iteration order of the hash maps and sets:
\* every outcome the call can have agrees with the one it had on whether the
\* cyclic-dependency error is returned and, for every edge, on which of its
\* two instances comes first in the order.
C36_OrderDeterminedByConnections ==
    last.op = "compute_order" =>
        \A other \in compute_instances_processing_order(connections) :
            /\ other.ok <=> last.ret = "Ok"
            /\ other.ok =>
                  \A e \in Edges(connections) :
                      StrictlyBefore(Flatten(other.list), e[1].instance, e[2].instance)
                        <=> StrictlyBefore(Flatten(processing_order),
                                           e[1].instance, e[2].instance)

(***************************************************************************)
(* File (src/src/modules/file.rs): the decode requests, their worker       *)
(* threads and the messages File::show receives.                           *)
(***************************************************************************)
MaxRequests == 3

Paths == {"P1", "P2"}

\* File::decode: the frames of the file at path
decode(path) == [some |-> TRUE, of |-> path]

Decoded(buffer) == [kind |-> "Decoded", buffer |-> buffer, path |-> ""]

PickedFile(path) == [kind |-> "PickedFile", buffer |-> "empty", path |-> path]

\* File::update: the thread that will decode the present path is spawned
update(self) ==
    [self EXCEPT !.loading = TRUE,
                 !.workers = @ \cup {[id |-> self.requests + 1, path |-> self.path]},
                 !.requests = @ + 1]

\* File::show, one message
Received(self, message) ==
    IF message.kind = "Decoded"
    THEN [self EXCEPT !.buffer = IF message.buffer.some THEN message.buffer.of ELSE @,
                      !.loading = FALSE]
    ELSE update([self EXCEPT !.path = message.path])

\* File::show: for message in self.receiver.try_iter().collect()
RECURSIVE ReceivedAll(_, _)
ReceivedAll(self, messages) ==
    IF messages = <<>> THEN self
    ELSE ReceivedAll(Received(self, Head(messages)), Tail(messages))

\* the requests made and the picked files not yet received
Requested(self) ==
    self.requests + Cardinality({i \in 1 .. Len(self.channel) :
                                    self.channel[i].kind = "PickedFile"})

\* the threads File::update can have spawned
Workers == [id : 1 .. MaxRequests, path : Paths]

FileUntouched ==
    UNCHANGED <<instances, next_handle, inputs, connections, conversions,
                processing_order, panicked, writes, last, process_vars,
                output_vars, damper_vars, scope>>

\* the frames File::decode gives for the file at a path; the buffer of
\* File::default is empty
buffer_frames(buffer) ==
    CASE buffer = "P1" -> <<Boxed("Frame", <<2>>), Boxed("Frame", <<2, 4>>),
                            Boxed("Frame", <<4>>)>>
      [] buffer = "P2" -> <<Boxed("Frame", <<6>>)>>
      [] OTHER -> <<>>

\* the two selectable values of File::show, enabled while the buffer holds
\* a frame; click is "play", "pause" or "none"
selected(self, click) ==
    IF click = "none" \/ buffer_frames(self.buffer) = <<>> THEN self
    ELSE [self EXCEPT !.playing = (click = "play")]

\* File::show: the messages are received, then the two play buttons and the
\* text field are drawn; edit is what the user typed into the field, "" when
\* nothing
FileShow(edit, click) ==
    /\ LET drained == selected(ReceivedAll([file EXCEPT !.channel = <<>>], file.channel),
                               click)
       IN IF edit = "" \/ edit = drained.path
          THEN file' = drained
          ELSE /\ drained.requests < MaxRequests
               /\ file' = update([drained EXCEPT !.path = edit])
    /\ file' # file
    /\ FileUntouched

\* the thread File::open_picker spawned sends the file picked
FilePicked(path) ==
    /\ Requested(file) < MaxRequests
    /\ file' = [file EXCEPT !.channel = Append(@, PickedFile(path))]
    /\ FileUntouched

\* a thread File::update spawned sends what it decoded
WorkerDelivers(worker) ==
    /\ worker \in file.workers
    /\ file' = [file EXCEPT !.channel = Append(@, Decoded(decode(worker.path))),
                            !.workers = @ \ {worker}]
    /\ FileUntouched

NextFile ==
    \/ \E edit \in Paths \cup {""} : FileShow(edit, "none")
    \/ \E path \in Paths : FilePicked(path)
    \/ \E worker \in Workers : WorkerDelivers(worker)

SpecFile == Init /\ [][NextFile]_vars

FileDefaultFrame == Boxed("Frame", <<0>>)

FileOutput == PortIdNew("FileOutput", "Frame")

\* File::process that reads the frame at the advanced seek
file_process_reading_ahead(self) ==
    LET buffer == buffer_frames(self.buffer)
    IN IF self.playing
       THEN IF self.seek < Len(buffer)
            THEN [self |-> [self EXCEPT !.seek = @ + 1],
                  frame |-> IF self.seek + 2 \in 1 .. Len(buffer)
                            THEN buffer[self.seek + 2] ELSE PanicValue]
            ELSE [self |-> [self EXCEPT !.playing = FALSE, !.seek = 0],
                  frame |-> FileDefaultFrame]
       ELSE [self |-> self, frame |-> FileDefaultFrame]

\* File::process: the module after the call and the frame it gives to
\* set_output; buffer.get(i) of the code is buffer[i + 1] here, and the
\* unwrap of a get outside the buffer is PanicValue
file_process(self) ==
    LET buffer == buffer_frames(self.buffer)
    IN IF self.playing
       THEN IF self.seek < Len(buffer)
            THEN [self |-> [self EXCEPT !.seek = @ + 1],
                  frame |-> IF self.seek + 1 \in 1 .. Len(buffer)
                            THEN buffer[self.seek + 1] ELSE PanicValue]
            ELSE [self |-> [self EXCEPT !.playing = FALSE, !.seek = 0],
                  frame |-> FileDefaultFrame]
       ELSE [self |-> self, frame |-> FileDefaultFrame]

\* a File instance 1 whose output feeds the input of a Filter instance 2
FilePort == PortHandleNew(FileOutput, 1)

\* Module::process of the File instance
FileProcess ==
    /\ ~panicked
    /\ LET done == file_process(file)
       IN /\ file' = done.self
          /\ panicked' = (done.frame = PanicValue)
          /\ inputs' = IF done.frame = PanicValue THEN inputs
                       ELSE set_output_dyn(inputs, connections, FilePort, done.frame)
          /\ last' = [Call("file_process", 1, FilePort, NoPort, NoResult,
                           IF done.frame = PanicValue THEN "panic" ELSE "Ok", done.frame)
                         EXCEPT !.before = [buffer |-> file.buffer, seek |-> file.seek,
                                            playing |-> file.playing]]
    /\ UNCHANGED <<instances, next_handle, connections, conversions, processing_order,
                   writes, process_vars, output_vars, damper_vars, scope>>

InitPlay ==
    /\ instances = (1 :> "File") @@ (2 :> "Filter")
    /\ next_handle = 3
    /\ inputs = EmptyMap
    /\ connections = (FilePort :> {PortHandleNew(FilterInput, 2)})
    /\ conversions = DefaultConversions
    /\ processing_order = <<<<1>>, <<2>>>>
    /\ panicked = FALSE
    /\ writes = 0
    /\ last = Call("new", 0, NoPort, NoPort, NoResult, "none", NoValue)
    /\ Idle

\* the editor draws the File module and the audio thread processes it
NextPlay ==
    \/ \E edit \in Paths \cup {""}, click \in {"none", "play", "pause"} :
          ~panicked /\ FileShow(edit, click)
    \/ \E worker \in Workers : ~panicked /\ WorkerDelivers(worker)
    \/ FileProcess

SpecPlay == InitPlay /\ [][NextPlay]_vars

\* C37: a call of File::process never reads outside the buffer.  While
\* playing with seek below the buffer length it emits the frame at seek and
\* advances seek by one; while playing with seek at or past the buffer
\* length (the buffer may have been replaced by a shorter one) it stops,
\* sets seek to 0 and emits the default frame; while not playing it emits
\* the default frame and leaves seek and playing as they are.  The frame
\* emitted is the one staged at the connected input.
C37_FileProcessStaysInBuffer ==
    [][(last'.op = "file_process" /\ last' # last) =>
        LET buffer == buffer_frames(file.buffer)
            emitted == get_input_dyn(inputs', PortHandleNew(FilterInput, 2))
        IN /\ ~panicked'
           /\ last'.value = emitted
           /\ file'.buffer = file.buffer
           /\ (file.playing /\ file.seek < Len(buffer))
                 => /\ emitted = buffer[file.seek + 1]
                    /\ file'.seek = file.seek + 1
                    /\ file'.playing
           /\ (file.playing /\ file.seek >= Len(buffer))
                 => /\ emitted = FileDefaultFrame
                    /\ file'.seek = 0
                    /\ ~file'.playing
           /\ ~file.playing
                 => /\ emitted = FileDefaultFrame
                    /\ file'.seek = file.seek
                    /\ ~file'.playing]_vars

\* C37 witness: File::process was called while playing with seek at 3, past
\* the end of the one-frame buffer that had replaced the three-frame buffer,
\* and has stopped the playback without a read.
C37_Witness ==
    /\ last.op = "file_process"
    /\ last.ret = "Ok"
    /\ last.before = [buffer |-> "P2", seek |-> 3, playing |-> TRUE]
    /\ last.value = FileDefaultFrame
    /\ file.seek = 0
    /\ ~file.playing

\* C26: once a request has been superseded and every worker thread has
\* delivered its result and File::show has received it, the buffer holds
\* the decode of the path requested last.
C26_BufferOfLatestRequest ==
    (file.requests >= 2 /\ file.workers = {} /\ file.channel = <<>>)
        => file.buffer = decode(file.path).of

(***************************************************************************)
(* Scope (src/src/modules/scope.rs): the buffer the plot is drawn from.    *)
(***************************************************************************)
MaxScopeMs == 3

MaxIntervalMs == 2

\* ctx.sample_rate of the Scope's ShowContext
ScopeRates == {2000}

Take(seq, n) == SubSeq(seq, 1, Min(n, Len(seq)))

\* Scope::process that steps over a slot of the buffer
scope_process_skipping_a_slot(self, value) ==
    LET pos == self.state.n
    IN IF self.state.kind = "Updating"
       THEN IF pos >= self.size
            THEN [self EXCEPT !.state = Waiting(0),
                              !.buffer = IF Len(@) > self.size THEN Take(@, self.size) ELSE @]
            ELSE [self EXCEPT !.buffer = IF Len(@) > pos
                                         THEN [@ EXCEPT ![pos + 1] = value]
                                         ELSE Append(@, value),
                              !.state = Updating(pos + 2)]
       ELSE IF self.interval > pos
            THEN [self EXCEPT !.state = Waiting(pos + 1)]
            ELSE [self EXCEPT !.state = Updating(0)]

\* Scope::process with the value read from the input; buffer.get_mut(pos)
\* of the code is buffer[pos + 1] here, and resize(size, 0.0) of a longer
\* buffer keeps its first size values
scope_process(self, value) ==
    LET pos == self.state.n
    IN IF self.state.kind = "Updating"
       THEN IF pos >= self.size
            THEN [self EXCEPT !.state = Waiting(0),
                              !.buffer = IF Len(@) > self.size THEN Take(@, self.size) ELSE @]
            ELSE [self EXCEPT !.buffer = IF Len(@) > pos
                                         THEN [@ EXCEPT ![pos + 1] = value]
                                         ELSE Append(@, value),
                              !.state = Updating(pos + 1)]
       ELSE IF self.interval > pos
            THEN [self EXCEPT !.state = Waiting(pos + 1)]
            ELSE [self EXCEPT !.state = Updating(0)]

\* Scope::points: the slices the plot is drawn from; split_at aborts when
\* pos is past the end of the buffer
points(self) ==
    IF self.state.kind = "Updating"
    THEN IF self.state.n <= Len(self.buffer)
         THEN <<SubSeq(self.buffer, 1, self.state.n),
                SubSeq(self.buffer, self.state.n + 1, Len(self.buffer))>>
         ELSE <<"panic">>
    ELSE <<self.buffer>>

\* the two DragValues of Scope::show: the value shown is the field in
\* milliseconds, and a changed value is written back in samples
dragged(field, ms, sample_rate) ==
    IF ms # field \div (sample_rate \div 1000)
    THEN ms * (sample_rate \div 1000)
    ELSE field

ScopePort == PortHandleNew(ScopeInput, 1)

ScopeUntouched ==
    UNCHANGED <<instances, next_handle, inputs, connections, conversions,
                processing_order, writes, process_vars, output_vars,
                damper_vars, file>>

\* Module::process of the Scope instance
ScopeProcess ==
    /\ ~panicked
    /\ scope' = scope_process(scope, get_input(inputs, conversions, ScopePort).ch[1])
    /\ last' = Call("scope_process", 1, NoPort, ScopePort, NoResult, "Ok",
                    get_input(inputs, conversions, ScopePort))
    /\ UNCHANGED panicked
    /\ ScopeUntouched

\* Scope::show: the duration and the interval are dragged to ms and
\* interval_ms, then the plot is drawn from points()
ScopeShow(ms, interval_ms) ==
    /\ ~panicked
    /\ \E sample_rate \in ScopeRates :
          scope' = [scope EXCEPT !.size = dragged(@, ms, sample_rate),
                                 !.interval = dragged(@, interval_ms, sample_rate)]
    /\ panicked' = (points(scope') = <<"panic">>)
    /\ last' = Call("scope_show", 1, NoPort, NoPort, NoResult,
                    IF panicked' THEN "panic" ELSE "Ok", NoValue)
    /\ ScopeUntouched

\* a rack with one Scope whose duration and interval were set once, before
\* the first frame
InitScope ==
    /\ instances = (1 :> "Scope")
    /\ next_handle = 2
    /\ inputs = EmptyMap
    /\ connections = EmptyMap
    /\ conversions = DefaultConversions
    /\ processing_order = <<>>
    /\ panicked = FALSE
    /\ writes = 0
    /\ last = Call("new", 0, NoPort, NoPort, NoResult, "none", NoValue)
    /\ clock = 0
    /\ stamps = [p \in {} |-> 0]
    /\ reads = {}
    /\ collected = <<>>
    /\ calls = <<>>
    /\ sends = {}
    /\ ring = HeapRbNew(0)
    /\ tick = NoTick
    /\ callback = NoCallback
    /\ stream = NoStream
    /\ file = FileDefault
    /\ damper = LinearDamperNew(One, 0)
    /\ run = NoRun
    /\ \E ms \in 1 .. MaxScopeMs, interval_ms \in 0 .. MaxIntervalMs, sample_rate \in ScopeRates :
          scope = [ScopeDefault EXCEPT !.size = dragged(@, ms, sample_rate),
                                       !.interval = dragged(@, interval_ms, sample_rate)]

NextScope ==
    \/ ScopeProcess
    \/ \E ms \in 1 .. MaxScopeMs, interval_ms \in 0 .. MaxIntervalMs : ScopeShow(ms, interval_ms)
    \/ \E value \in ValuesOf("f32") : SetInput(ScopePort, value, MaxWrites)

SpecScope == InitScope /\ [][NextScope]_vars

\* C38: while the Scope is in the state Updating{pos}, pos is at most the
\* length of the buffer, so the split_at(pos) of points() never aborts.
C38_UpdatingPosWithinBuffer ==
    /\ scope.state.kind = "Updating" => scope.state.n <= Len(scope.buffer)
    /\ points(scope) # <<"panic">>
    /\ ~panicked

\* C38 witness: the duration was shortened while the buffer was being
\* filled: the Scope is updating at a position inside a buffer that is
\* longer than the duration.
C38_Witness ==
    /\ last.op = "scope_process"
    /\ scope.state.kind = "Updating"
    /\ scope.state.n >= 1
    /\ Len(scope.buffer) > scope.size
    /\ scope.state.n < Len(scope.buffer)

====
